---- MODULE Spec2Model ----
\* Verification model of FreeLB's field containers (src/src/data_struct/field.h):
\* the CyclicArray rotating buffer and the 2D block-to-block field transfer
\* routines.
EXTENDS Integers, Naturals, Sequences, FiniteSets, TLC

\* ---------------------------------------------------------------- bounds
\* largest element count of a CyclicArray
MaxN == 3
\* element values are 0..MaxVal
MaxVal == 1
\* rotate offsets are -MaxOff..MaxOff: reaches beyond two full turns of the
\* largest array
MaxOff == 2 * MaxN + 1
\* cap on |shift| (shift drifts without bound under repeated large offsets)
MaxShift == MaxOff

\* ghost-layer depth g of a block is 1..MaxOverlap
MaxOverlap == 1
\* number of field transfers in one run
MaxComm == 2

\* block cells per axis of the initial partition
GridN == 2
\* deepest refinement level
MaxLevel == 2
\* number of refinement passes before the forest is flattened
MaxPass == 2
\* AdaptiveOptimization: largest distance of the target count from the
\* length of the block list
MaxDelta == 3
\* LoadBalancing: longest block list, deepest level of a block in it, and
\* largest worker count
MaxLbBlocks == 4
MaxLbLevel == 1
MaxWorkers == 3

\* number of calls on the two arrays of a copy
MaxCopyOps == 3

\* moving boundary: most cells of the flag field, largest flag value (two
\* bits of the std::uint8_t), longest Ids before a call, and number of calls
MaxCells == 3
MaxFlag == 3
MaxIds == 2
MaxBdOps == 3

\* vtmWriter: most vti writers (blocks), and number of Write calls in a run
MaxWriters == 3
MaxWrites == 2

\* time loop: largest MaxStep and largest OutputStep of a run
MaxSteps == 3
MaxOutputStep == 2

\* synchronous step: number of workers and of time steps of a run
MaxSyncWorkers == 3
MaxSyncSteps == 2

Sizes == 1..MaxN
Values == 0..MaxVal
Offsets == (-MaxOff)..MaxOff

\* ---------------------------------------------------------------- state
VARIABLES
  arr,    \* the CyclicArray object: count, data, shift, remainder, start, lastOffset
  wild,   \* TRUE once a store went through a pointer outside its buffer
  last,   \* the most recent call on arr: [op, a, b]; b of a Resize is the count before it
  blk,    \* the two blocks of a transfer: A, ABase, B, BBase
  fld,    \* the GenericField of block A and of block B
  acc,    \* the array elements the most recent transfer read and wrote
  comm,   \* the most recent transfer, how it ended, and the number made: [op, outcome, n]
  leaves, \* BlockGeometryHelper: the leaf blocks of the refinement forest
  blocks, \* BlockGeometryHelper: the flattened block list, << >> before CreateBlocks
  geo,    \* BlockGeometryHelper: the phase and the most recent call with its arguments
  lb,     \* LoadBalancing: the block list, the worker count, the owner of every block
  other,  \* a second CyclicArray object, the copy of arr, << >> before it is constructed
  loop,   \* the time loop of a solver: the program, its position, the calls made so far
  sync,   \* the workers of a synchronous step: their phases and the transfers in flight
  vtm,    \* vtmWriter: the bytes of the .vtm file and the position of every thread
  bd      \* a moving boundary: the flag field, BdCellFlag and Ids

arrVars == <<arr, last>>
commVars == <<blk, fld, acc, comm>>
geoVars == <<leaves, blocks, geo>>
sysVars == <<other, loop, sync, vtm, bd>>
vars == <<arr, wild, last, blk, fld, acc, comm, leaves, blocks, geo, lb, other, loop, sync,
          vtm, bd>>

\* std::size_t: unsigned, arithmetic modulo 2^w.  Every magnitude the model
\* produces is far below 2^19, so w = 20 orders the values exactly as w = 64.
SizeMod == 2 ^ 20
ToSize(x) == x % SizeMod

\* T{} : the value-initialised element
DefaultValue == 0

\* ---------------------------------------------------------------- CyclicArray
\* pointers are element offsets relative to `data` (the base of the buffer)
InBuf(a, p) == p \in 0 .. (a.count - 1)

refresh(a) ==
  LET n == a.count IN
  IF a.shift >= 0
    THEN [a EXCEPT !.remainder = ToSize(n - a.shift - 1),
                   !.start = [j \in 0..1 |-> IF j = 0 THEN a.shift
                                                      ELSE 0 - (n - a.shift)]]
    ELSE [a EXCEPT !.remainder = ToSize((0 - a.shift) - 1),
                   !.start = [j \in 0..1 |-> IF j = 0 THEN n + a.shift
                                                      ELSE a.shift]]

\* CyclicArray(size, InitValue); CyclicArray(size) is the case InitValue = T{}
CyclicArrayCtor(size, InitValue) ==
  refresh([count |-> size,
           data |-> [p \in 0..(size - 1) |-> InitValue],
           shift |-> 0,
           remainder |-> size,
           start |-> [j \in 0..1 |-> 0],
           lastOffset |-> 0])

\* address that operator[] / set / getdataPtr resolve logical index i to
getdataPtr(a, i) == (IF ToSize(i) > a.remainder THEN a.start[1] ELSE a.start[0]) + i

\* dereferencing p for reading: the element when p is inside the buffer,
\* otherwise whatever the memory next to the buffer holds
Deref(a, p) == IF InBuf(a, p) THEN {a.data[p]} ELSE Values

\* operator[] : the set of values a read of logical index i can return
get(a, i) == Deref(a, getdataPtr(a, i))

set(a, i, value) ==
  LET p == getdataPtr(a, i) IN
  IF InBuf(a, p) THEN [a EXCEPT !.data[p] = value] ELSE a

\* address getPrevious resolves logical index i to
getPreviousPtr(a, i) ==
  LET p0 == i + a.lastOffset
      prevIndex == IF p0 < 0 THEN p0 + a.count
                   ELSE IF p0 >= a.count THEN p0 - a.count
                   ELSE p0
  IN (IF ToSize(prevIndex) > a.remainder THEN a.start[1] ELSE a.start[0]) + prevIndex

getPrevious(a, i) == Deref(a, getPreviousPtr(a, i))

\* rotate written as an O(N) move of the elements on top of the pointer update
rotateMoving(a, offset) ==
  LET n == a.count
      s1 == a.shift - offset
      s2 == IF s1 >= n THEN s1 - n
            ELSE IF s1 <= 0 - n THEN s1 + n
            ELSE s1
  IN refresh([a EXCEPT !.lastOffset = offset, !.shift = s2,
                       !.data = [p \in DOMAIN a.data |-> a.data[(p - offset) % n]]])

rotate(a, offset) ==
  LET n == a.count
      s1 == a.shift - offset
      s2 == IF s1 >= n THEN s1 - n
            ELSE IF s1 <= 0 - n THEN s1 + n
            ELSE s1
  IN refresh([a EXCEPT !.lastOffset = offset, !.shift = s2])

ArrayInit(a, InitValue) == [a EXCEPT !.data = [p \in DOMAIN a.data |-> InitValue]]

\* Resize that allocates the new buffer but keeps shift and lastOffset
ResizeKeepShift(a, size) ==
  IF size = a.count THEN a
  ELSE refresh([count |-> size,
                data |-> [p \in 0..(size - 1) |-> DefaultValue],
                shift |-> a.shift,
                remainder |-> size,
                start |-> a.start,
                lastOffset |-> a.lastOffset])

Resize(a, size) ==
  IF size = a.count THEN a
  ELSE refresh([count |-> size,
                data |-> [p \in 0..(size - 1) |-> DefaultValue],
                shift |-> 0,
                remainder |-> size,
                start |-> a.start,
                lastOffset |-> 0])

\* CyclicArray(const CyclicArray& arr): a buffer of its own with the count
\* elements of arr, the bookkeeping of arr, and refresh for the new buffer
CyclicArrayCopy(a) ==
  refresh([count |-> a.count,
           data |-> [p \in 0..(a.count - 1) |-> a.data[p]],
           shift |-> a.shift,
           remainder |-> a.remainder,
           start |-> [j \in 0..1 |-> 0],
           lastOffset |-> a.lastOffset])

\* operator=(const CyclicArray& arr); self is &arr == this
OperatorAssign(this, a, self) ==
  IF self THEN this
  ELSE refresh([count |-> a.count,
                data |-> [p \in 0..(a.count - 1) |-> a.data[p]],
                shift |-> a.shift,
                remainder |-> a.remainder,
                start |-> this.start,
                lastOffset |-> a.lastOffset])

\* ---------------------------------------------------------------- blocks
\* Lengths are in units of the finest voxel, so every coordinate is an
\* integer; Vector components [1], [2] are x, y.
FineVoxel == 1
CoarseVoxel == 2 * FineVoxel
\* edge length of a block without its ghost layers
BaseLen == 2 * CoarseVoxel
\* number of arrays in a GenericField
FieldD == 2
\* field values are dyadic rationals, kept as integer multiples of 1 / Unit:
\* every transfer divides by at most 16, so MaxComm transfers stay exact
Unit == 16 ^ MaxComm

Max2(a, b) == IF a >= b THEN a ELSE b
Min2(a, b) == IF a <= b THEN a ELSE b

\* BasicBlock: an AABB, its voxel size h and its mesh dimensions extent / h
BasicBlock(min, max, h) ==
  [min |-> min, max |-> max, h |-> h,
   Nx |-> (max[1] - min[1]) \div h, Ny |-> (max[2] - min[2]) \div h]

\* number of cells of a block: the size of each array of its field
getN(b) == b.Nx * b.Ny

\* the block with `layers` more voxels of its own size on every side
Extended(b, layers) ==
  BasicBlock(<<b.min[1] - layers * b.h, b.min[2] - layers * b.h>>,
             <<b.max[1] + layers * b.h, b.max[2] + layers * b.h>>, b.h)

getIntersection(b1, b2) ==
  [min |-> <<Max2(b1.min[1], b2.min[1]), Max2(b1.min[2], b2.min[2])>>,
   max |-> <<Min2(b1.max[1], b2.max[1]), Min2(b1.max[2], b2.max[2])>>]

getExtension(box) == <<box.max[1] - box.min[1], box.max[2] - box.min[2]>>

isOverlapped(b1, b2) ==
  /\ b1.min[1] < b2.max[1] /\ b2.min[1] < b1.max[1]
  /\ b1.min[2] < b2.max[2] /\ b2.min[2] < b1.max[2]

\* conversion of the quotient len / h to int: truncation towards zero
ToInt(len, h) == IF len >= 0 THEN len \div h ELSE 0 - ((0 - len) \div h)

\* ---------------------------------------------------------------- transfers
\* A transfer routine is a loop nest; step k of it stores into one
\* destination element a weighted sum of source elements.  A cell is the
\* pair of local coordinates the code forms and the std::size_t id it indexes
\* the array with.
Cell(x, y, Nx) == [x |-> x, y |-> y, id |-> ToSize(y * Nx + x)]

\* the cell whose id is `by` more than the id of cell c (Cid0 + 1, ...)
CellPlus(c, dx, dy, by) == [x |-> c.x + dx, y |-> c.y + dy, id |-> ToSize(c.id + by)]

\* FieldInterpolation2D with the second and fourth pass starting at startFx
\* instead of startFx + 1: the passes are no longer disjoint in x
InterpolationPlanSamePass(CBlock, CBaseBlock, FBlock, FBaseBlock) ==
  LET intsec == getIntersection(CBaseBlock, FBaseBlock)
      CNx == ToInt(getExtension(intsec)[1], CBlock.h)
      CNy == ToInt(getExtension(intsec)[2], CBlock.h)
      startCx_ == ToInt(intsec.min[1] - CBlock.min[1], CBlock.h)
      startCy_ == ToInt(intsec.min[2] - CBlock.min[2], CBlock.h)
      startCx == startCx_ - 1
      startCy == startCy_ - 1
      startFx == ToInt(intsec.min[1] - FBlock.min[1], FBlock.h)
      startFy == ToInt(intsec.min[2] - FBlock.min[2], FBlock.h)
      startFy_ == startFy + 1
      K == IF CNx > 0 /\ CNy > 0 THEN 4 * CNy * CNx ELSE 0
      Step(k) ==
        LET q == k \div (CNy * CNx)
            iy == (k \div CNx) % CNy
            ix == k % CNx
            cx == IF q \in {0, 2} THEN startCx ELSE startCx_
            cy == IF q \in {0, 1} THEN startCy ELSE startCy_
            fy == IF q \in {0, 1} THEN startFy ELSE startFy_
            Cid0 == Cell(ix + cx, iy + cy, CBlock.Nx)
            Cid1 == CellPlus(Cid0, 1, 0, 1)
            Cid2 == CellPlus(Cid0, 0, 1, CBlock.Nx)
            Cid3 == CellPlus(Cid2, 1, 0, 1)
        IN [dst |-> Cell(ix * 2 + startFx, iy * 2 + fy, FBlock.Nx),
            src |-> <<Cid0, Cid1, Cid2, Cid3>>,
            w |-> CASE q = 0 -> <<1, 3, 3, 9>>
                    [] q = 1 -> <<3, 1, 9, 3>>
                    [] q = 2 -> <<3, 9, 1, 3>>
                    [] OTHER -> <<9, 3, 3, 1>>,
            den |-> 16]
  IN [k \in 0..(K - 1) |-> Step(k)]

\* FieldInterpolation2D: the four passes over the CNx x CNy coarse cells
InterpolationPlan(CBlock, CBaseBlock, FBlock, FBaseBlock) ==
  LET intsec == getIntersection(CBaseBlock, FBaseBlock)
      CNx == ToInt(getExtension(intsec)[1], CBlock.h)
      CNy == ToInt(getExtension(intsec)[2], CBlock.h)
      startCx_ == ToInt(intsec.min[1] - CBlock.min[1], CBlock.h)
      startCy_ == ToInt(intsec.min[2] - CBlock.min[2], CBlock.h)
      startCx == startCx_ - 1
      startCy == startCy_ - 1
      startFx == ToInt(intsec.min[1] - FBlock.min[1], FBlock.h)
      startFy == ToInt(intsec.min[2] - FBlock.min[2], FBlock.h)
      startFx_ == startFx + 1
      startFy_ == startFy + 1
      K == IF CNx > 0 /\ CNy > 0 THEN 4 * CNy * CNx ELSE 0
      Step(k) ==
        LET q == k \div (CNy * CNx)
            iy == (k \div CNx) % CNy
            ix == k % CNx
            cx == IF q \in {0, 2} THEN startCx ELSE startCx_
            cy == IF q \in {0, 1} THEN startCy ELSE startCy_
            fx == IF q \in {0, 2} THEN startFx ELSE startFx_
            fy == IF q \in {0, 1} THEN startFy ELSE startFy_
            Cid0 == Cell(ix + cx, iy + cy, CBlock.Nx)
            Cid1 == CellPlus(Cid0, 1, 0, 1)
            Cid2 == CellPlus(Cid0, 0, 1, CBlock.Nx)
            Cid3 == CellPlus(Cid2, 1, 0, 1)
        IN [dst |-> Cell(ix * 2 + fx, iy * 2 + fy, FBlock.Nx),
            src |-> <<Cid0, Cid1, Cid2, Cid3>>,
            w |-> CASE q = 0 -> <<1, 3, 3, 9>>
                    [] q = 1 -> <<3, 1, 9, 3>>
                    [] q = 2 -> <<3, 9, 1, 3>>
                    [] OTHER -> <<9, 3, 3, 1>>,
            den |-> 16]
  IN [k \in 0..(K - 1) |-> Step(k)]

\* FieldAverage2D: one pass over the CNx x CNy coarse cells
AveragePlan(FBlock, FBaseBlock, CBlock, CBaseBlock) ==
  LET intsec == getIntersection(CBaseBlock, FBaseBlock)
      CNx == ToInt(getExtension(intsec)[1], CBlock.h)
      CNy == ToInt(getExtension(intsec)[2], CBlock.h)
      startCx == ToInt(intsec.min[1] - CBlock.min[1], CBlock.h)
      startCy == ToInt(intsec.min[2] - CBlock.min[2], CBlock.h)
      startFx == ToInt(intsec.min[1] - FBlock.min[1], FBlock.h)
      startFy == ToInt(intsec.min[2] - FBlock.min[2], FBlock.h)
      K == IF CNx > 0 /\ CNy > 0 THEN CNy * CNx ELSE 0
      Step(k) ==
        LET iy == k \div CNx
            ix == k % CNx
            Fid0 == Cell(ix * 2 + startFx, iy * 2 + startFy, FBlock.Nx)
            Fid1 == CellPlus(Fid0, 1, 0, 1)
            Fid2 == CellPlus(Fid0, 0, 1, FBlock.Nx)
            Fid3 == CellPlus(Fid2, 1, 0, 1)
        IN [dst |-> Cell(ix + startCx, iy + startCy, CBlock.Nx),
            src |-> <<Fid0, Fid1, Fid2, Fid3>>,
            w |-> <<1, 1, 1, 1>>,
            den |-> 4]
  IN [k \in 0..(K - 1) |-> Step(k)]

\* FieldCopy2D with the two start offsets exchanged: the source is read at
\* the destination's local position and the other way round
CopyPlanSwapped(FromBlock, FromBaseBlock, ToBlock, ToBaseBlock) ==
  LET intsec == getIntersection(FromBaseBlock, ToBaseBlock)
      Nx == ToInt(getExtension(intsec)[1], FromBlock.h)
      Ny == ToInt(getExtension(intsec)[2], FromBlock.h)
      startFromx == ToInt(intsec.min[1] - FromBlock.min[1], FromBlock.h)
      startFromy == ToInt(intsec.min[2] - FromBlock.min[2], FromBlock.h)
      startTox == ToInt(intsec.min[1] - ToBlock.min[1], ToBlock.h)
      startToy == ToInt(intsec.min[2] - ToBlock.min[2], ToBlock.h)
      K == IF Nx > 0 /\ Ny > 0 THEN Ny * Nx ELSE 0
      Step(k) ==
        LET iy == k \div Nx
            ix == k % Nx
        IN [dst |-> Cell(ix + startFromx, iy + startFromy, ToBlock.Nx),
            src |-> <<Cell(ix + startTox, iy + startToy, FromBlock.Nx)>>,
            w |-> <<1>>,
            den |-> 1]
  IN [k \in 0..(K - 1) |-> Step(k)]

\* FieldCopy2D: one pass over the Nx x Ny cells of the intersection
CopyPlan(FromBlock, FromBaseBlock, ToBlock, ToBaseBlock) ==
  LET intsec == getIntersection(FromBaseBlock, ToBaseBlock)
      Nx == ToInt(getExtension(intsec)[1], FromBlock.h)
      Ny == ToInt(getExtension(intsec)[2], FromBlock.h)
      startFromx == ToInt(intsec.min[1] - FromBlock.min[1], FromBlock.h)
      startFromy == ToInt(intsec.min[2] - FromBlock.min[2], FromBlock.h)
      startTox == ToInt(intsec.min[1] - ToBlock.min[1], ToBlock.h)
      startToy == ToInt(intsec.min[2] - ToBlock.min[2], ToBlock.h)
      K == IF Nx > 0 /\ Ny > 0 THEN Ny * Nx ELSE 0
      Step(k) ==
        LET iy == k \div Nx
            ix == k % Nx
        IN [dst |-> Cell(ix + startTox, iy + startToy, ToBlock.Nx),
            src |-> <<Cell(ix + startFromx, iy + startFromy, FromBlock.Nx)>>,
            w |-> <<1>>,
            den |-> 1]
  IN [k \in 0..(K - 1) |-> Step(k)]

\* GenericArray::operator[] is data[i], unchecked: an id outside the array
\* reads the memory next to it (junk), and a store there lands outside
InArray(id, n) == id \in 0..(n - 1)

\* ids a plan reads outside a source array of n elements
OobReads(plan, n) ==
  UNION {{plan[k].src[j].id : j \in 1..Len(plan[k].src)} : k \in DOMAIN plan}
    \ (0..(n - 1))

OobWrite(plan, n) == \E k \in DOMAIN plan : ~InArray(plan[k].dst.id, n)

\* the value step st stores, reading the source array SrcArr
StepValue(st, SrcArr, jk) ==
  LET R(c) == IF c.id \in DOMAIN SrcArr THEN SrcArr[c.id] ELSE jk[c.id]
      T(j) == IF j <= Len(st.src) THEN st.w[j] * R(st.src[j]) ELSE 0
  IN (T(1) + T(2) + T(3) + T(4)) \div st.den

\* a loop nest that runs over the whole destination array instead of the
\* intersection: an element no step stores into is reset to T{}
RunPlanWholeArray(plan, SrcField, DstField, junk) ==
  [c \in DOMAIN DstField |->
     [id \in DOMAIN DstField[c] |->
        LET W == {k \in DOMAIN plan : plan[k].dst.id = id}
        IN IF W = {} THEN DefaultValue
           ELSE StepValue(plan[CHOOSE k \in W : \A k2 \in W : k2 <= k],
                          SrcField[c], junk[c])]]

\* run the loop nest for each of the D arrays: an element keeps its value
\* unless a step stores into it, and then the last such step decides
RunPlan(plan, SrcField, DstField, junk) ==
  [c \in DOMAIN DstField |->
     [id \in DOMAIN DstField[c] |->
        LET W == {k \in DOMAIN plan : plan[k].dst.id = id}
        IN IF W = {} THEN DstField[c][id]
           ELSE StepValue(plan[CHOOSE k \in W : \A k2 \in W : k2 <= k],
                          SrcField[c], junk[c])]]

FieldInterpolation2D(CField, FField, CBlock, CBaseBlock, FBlock, FBaseBlock, junk) ==
  RunPlan(InterpolationPlan(CBlock, CBaseBlock, FBlock, FBaseBlock), CField, FField, junk)

FieldAverage2D(FField, CField, FBlock, FBaseBlock, CBlock, CBaseBlock, junk) ==
  RunPlan(AveragePlan(FBlock, FBaseBlock, CBlock, CBaseBlock), FField, CField, junk)

FieldCopy2D(FromField, ToField, FromBlock, FromBaseBlock, ToBlock, ToBaseBlock, junk) ==
  RunPlan(CopyPlan(FromBlock, FromBaseBlock, ToBlock, ToBaseBlock), FromField, ToField, junk)

\* the elements a plan touches: local coordinates, id, the mesh of the block
\* the array belongs to, and whether the access is a store
Accesses(plan, SrcBlock, DstBlock) ==
  UNION {{[Nx |-> SrcBlock.Nx, Ny |-> SrcBlock.Ny, x |-> plan[k].src[j].x,
            y |-> plan[k].src[j].y, id |-> plan[k].src[j].id, store |-> FALSE] :
              j \in 1..Len(plan[k].src)} : k \in DOMAIN plan}
  \cup
  {[Nx |-> DstBlock.Nx, Ny |-> DstBlock.Ny, x |-> plan[k].dst.x,
    y |-> plan[k].dst.y, id |-> plan[k].dst.id, store |-> TRUE] :
      k \in DOMAIN plan}

\* GenericField(size, initialValue) followed by SetField calls: pattern
\* pat <= MaxVal is the constant field pat, pattern MaxVal + 1 gives every
\* element of every array its own value
Patterns == 0..(MaxVal + 1)
FieldOf(n, pat) ==
  [c \in 0..(FieldD - 1) |->
     [id \in 0..(n - 1) |-> Unit * (IF pat <= MaxVal THEN pat ELSE 1 + id + c * n)]]

JunkValues == {Unit * v : v \in Values}

\* the pair of blocks of a transfer.  Block A has voxel size hA and the base
\* extent [0, BaseLen)^2, block B is fine and offset by (ox, oy); both carry
\* g ghost layers.  The extents handed over as "BaseBlock" are the blocks
\* with e of these layers: e = g is the intersection of the ghost-inclusive
\* extents, e = 0 the intersection of the bare extents.
BlockPair(hA, ox, oy, g, e) ==
  LET a0 == BasicBlock(<<0, 0>>, <<BaseLen, BaseLen>>, hA)
      b0 == BasicBlock(<<ox, oy>>, <<ox + BaseLen, oy + BaseLen>>, FineVoxel)
  IN [A |-> Extended(a0, g), ABase |-> Extended(a0, e),
      B |-> Extended(b0, g), BBase |-> Extended(b0, e)]

BlockOffsets == {CoarseVoxel * k : k \in -2..2}
BlockPairs ==
  UNION {{BlockPair(hA, ox, oy, g, 0), BlockPair(hA, ox, oy, g, g)} :
           hA \in {FineVoxel, CoarseVoxel}, ox \in BlockOffsets,
           oy \in BlockOffsets, g \in 1..MaxOverlap}

\* ---------------------------------------------------------------- block geometry helper
\* BlockGeometryHelper2D and BasicBlock::refine, as the design describes them
\* (refinement forest, CheckRefine, CreateBlocks, AdaptiveOptimization); the
\* calls are those of the refblock test.
\* voxel size of level l, h = h0 / 2^l, in units of the voxel of level MaxLevel
VoxelOf(l) == FineVoxel * 2 ^ (MaxLevel - l)
\* mesh of one block cell of the initial partition, per axis (Ni / BlockNumX)
BlockCellLen == 2
RootEdge == BlockCellLen * VoxelOf(0)
DomainLen == GridN * RootEdge
Domain == [min |-> <<0, 0>>, max |-> <<DomainLen, DomainLen>>]

\* a BasicBlock with its refinement level
LevelBlock(min, max, l) ==
  LET b == BasicBlock(min, max, VoxelOf(l))
  IN [min |-> b.min, max |-> b.max, h |-> b.h, Nx |-> b.Nx, Ny |-> b.Ny, level |-> l]

\* the initial partition: GridN x GridN block cells of level 0
InitialPartition ==
  {LevelBlock(<<i * RootEdge, j * RootEdge>>,
              <<(i + 1) * RootEdge, (j + 1) * RootEdge>>, 0) : i, j \in 0..(GridN - 1)}

\* refine(k) splitting once per axis whatever k is
refineOnce(b, k) ==
  LET n == 2
      cw == (b.max[1] - b.min[1]) \div n
      ch == (b.max[2] - b.min[2]) \div n
  IN {LevelBlock(<<b.min[1] + i * cw, b.min[2] + j * ch>>,
                 <<b.min[1] + (i + 1) * cw, b.min[2] + (j + 1) * ch>>,
                 b.level + k) : i, j \in 0..(n - 1)}

\* refine(k): the 2^k x 2^k sub-boxes of block b, at level b.level + k
refine(b, k) ==
  LET n == 2 ^ k
      cw == (b.max[1] - b.min[1]) \div n
      ch == (b.max[2] - b.min[2]) \div n
  IN {LevelBlock(<<b.min[1] + i * cw, b.min[2] + j * ch>>,
                 <<b.min[1] + (i + 1) * cw, b.min[2] + (j + 1) * ch>>,
                 b.level + k) : i, j \in 0..(n - 1)}

\* a mesh with a dimension below 1
Degenerate(b) == b.Nx < 1 \/ b.Ny < 1

\* the refinement regions: boxes of whole block cells
Regions ==
  {[min |-> <<c[1] * RootEdge, c[2] * RootEdge>>,
    max |-> <<c[3] * RootEdge, c[4] * RootEdge>>] :
     c \in {d \in (0..GridN) \X (0..GridN) \X (0..GridN) \X (0..GridN) :
              d[1] < d[3] /\ d[2] < d[4]}}
NoRegion == [min |-> <<0, 0>>, max |-> <<0, 0>>]

\* forEachBlockCell with the predicate isOverlapped(block, region)
Selected(L, region) == {b \in L : isOverlapped(b, region)}
RefineFails(L, region, k) ==
  \E b \in Selected(L, region) : \E c \in refine(b, k) : Degenerate(c)
RefinePass(L, region, k) ==
  (L \ Selected(L, region)) \cup UNION {refine(b, k) : b \in Selected(L, region)}

\* two blocks share a piece of a face
FaceAdjacent(a, b) ==
  \/ /\ a.max[1] = b.min[1] \/ b.max[1] = a.min[1]
     /\ a.min[2] < b.max[2] /\ b.min[2] < a.max[2]
  \/ /\ a.max[2] = b.min[2] \/ b.max[2] = a.min[2]
     /\ a.min[1] < b.max[1] /\ b.min[1] < a.max[1]

\* CheckRefine tolerating a difference of two levels
RECURSIVE CheckRefineLax(_)
CheckRefineLax(L) ==
  LET T == {a \in L : \E b \in L : FaceAdjacent(a, b) /\ b.level > a.level + 2}
  IN IF T = {} THEN L
     ELSE CheckRefineLax((L \ T) \cup UNION {refine(a, 1) : a \in T})

\* CheckRefine: the coarser leaf of every face-adjacent pair more than one
\* level apart is refined once more, until no such pair is left
RECURSIVE CheckRefine(_)
CheckRefine(L) ==
  LET T == {a \in L : \E b \in L : FaceAdjacent(a, b) /\ b.level > a.level + 1}
  IN IF T = {} THEN L
     ELSE CheckRefine((L \ T) \cup UNION {refine(a, 1) : a \in T})

\* CreateBlocks: the leaves as a list, row by row from the lower left; the
\* position in the list is the block id
ListedBefore(a, b) ==
  a.min[2] < b.min[2] \/ (a.min[2] = b.min[2] /\ a.min[1] < b.min[1])
CreateBlocks(L) ==
  LET rank == [b \in L |-> Cardinality({a \in L : ListedBefore(a, b)})]
  IN [r \in 1..Cardinality(L) |-> CHOOSE b \in L : rank[b] = r - 1]

\* AdaptiveOptimization(targetCount): same-level blocks are merged while the
\* list is longer than the target and split while it is shorter.  Among the
\* candidates the one whose result is closest to square wins, then the one
\* with the lowest block ids.
Width(b) == b.max[1] - b.min[1]
Height(b) == b.max[2] - b.min[2]
Skew(b) == IF Width(b) >= Height(b) THEN Width(b) - Height(b) ELSE Height(b) - Width(b)

\* key k1 comes before key k2 (triples, compared from the left)
KeyBefore(k1, k2) ==
  \/ k1[1] < k2[1]
  \/ k1[1] = k2[1] /\ k1[2] < k2[2]
  \/ k1[1] = k2[1] /\ k1[2] = k2[2] /\ k1[3] < k2[3]

\* b lies right of a or above a, on the same level, along a whole face
CanMerge(a, b) ==
  /\ a.level = b.level
  /\ \/ a.max[1] = b.min[1] /\ a.min[2] = b.min[2] /\ a.max[2] = b.max[2]
     \/ a.max[2] = b.min[2] /\ a.min[1] = b.min[1] /\ a.max[1] = b.max[1]

\* the merge that keeps the lower corner of both blocks
MergedShort(a, b) == LevelBlock(a.min, a.max, a.level)

Merged(a, b) == LevelBlock(a.min, b.max, a.level)

MergeCandidates(B) ==
  {c \in (1..Len(B)) \X (1..Len(B)) : CanMerge(B[c[1]], B[c[2]])}

MergeStep(B) ==
  LET C == MergeCandidates(B)
      Key(c) == <<Skew(Merged(B[c[1]], B[c[2]])), Min2(c[1], c[2]), Max2(c[1], c[2])>>
      best == CHOOSE c \in C : \A d \in C : c = d \/ KeyBefore(Key(c), Key(d))
      keep == Min2(best[1], best[2])
      drop == Max2(best[1], best[2])
  IN [r \in 1..(Len(B) - 1) |->
        LET i == IF r < drop THEN r ELSE r + 1
        IN IF i = keep THEN Merged(B[best[1]], B[best[2]]) ELSE B[i]]

\* the two halves of block b cut across axis ax (1 = x, 2 = y) on a cell edge
Halves(b, ax) ==
  LET cx == b.min[1] + (b.Nx \div 2) * b.h
      cy == b.min[2] + (b.Ny \div 2) * b.h
  IN IF ax = 1
       THEN <<LevelBlock(b.min, <<cx, b.max[2]>>, b.level),
              LevelBlock(<<cx, b.min[2]>>, b.max, b.level)>>
       ELSE <<LevelBlock(b.min, <<b.max[1], cy>>, b.level),
              LevelBlock(<<b.min[1], cy>>, b.max, b.level)>>

SplitCandidates(B) ==
  {c \in (1..Len(B)) \X {1, 2} :
     IF c[2] = 1 THEN B[c[1]].Nx >= 2 ELSE B[c[1]].Ny >= 2}

SplitStep(B) ==
  LET C == SplitCandidates(B)
      Key(c) == LET hs == Halves(B[c[1]], c[2])
                IN <<Max2(Skew(hs[1]), Skew(hs[2])), c[1], c[2]>>
      best == CHOOSE c \in C : \A d \in C : c = d \/ KeyBefore(Key(c), Key(d))
      hs == Halves(B[best[1]], best[2])
  IN Append([B EXCEPT ![best[1]] = hs[1]], hs[2])

RECURSIVE AdaptiveOptimization(_, _)
AdaptiveOptimization(B, targetCount) ==
  IF Len(B) > targetCount /\ MergeCandidates(B) # {}
    THEN AdaptiveOptimization(MergeStep(B), targetCount)
  ELSE IF Len(B) < targetCount /\ SplitCandidates(B) # {}
    THEN AdaptiveOptimization(SplitStep(B), targetCount)
  ELSE B

\* the target counts tried on a list of n blocks: up to MaxDelta fewer or more
TargetCounts(n) == {t \in (n - MaxDelta)..(n + MaxDelta) : t >= 1}

\* ---------------------------------------------------------------- load balancing
\* LoadBalancing(W) as the design describes it: weight = cellCount x
\* costFactor(level), blocks in descending weight, each to the worker with
\* the least load so far.
\* cells of every block of the list
BlockCells == 10
costFactor(level) == 2 ^ level
weight(b) == b.cells * costFactor(b.level)

\* the block lists LoadBalancing is run on
BlockLists ==
  UNION {[1..n -> {[cells |-> BlockCells, level |-> l] : l \in 0..MaxLbLevel}] :
           n \in 0..MaxLbBlocks}

\* block id i comes before block id j in the descending order
Heavier(B, i, j) ==
  weight(B[i]) > weight(B[j]) \/ (weight(B[i]) = weight(B[j]) /\ i < j)

SortByWeight(B) ==
  LET rank == [i \in 1..Len(B) |-> Cardinality({j \in 1..Len(B) : Heavier(B, j, i)})]
  IN [r \in 1..Len(B) |-> CHOOSE i \in 1..Len(B) : rank[i] = r - 1]

\* the worker every block goes to is the first one
FirstWorker(load, W) == 1

\* the worker with the smallest load, the lowest rank among equals
LeastLoaded(load, W) ==
  CHOOSE w \in 1..W :
    \A v \in 1..W : load[w] < load[v] \/ (load[w] = load[v] /\ w <= v)

RECURSIVE Assign(_, _, _, _, _, _)
Assign(B, W, order, r, load, owner) ==
  IF r > Len(order) THEN owner
  ELSE LET i == order[r]
           w == LeastLoaded(load, W)
       IN Assign(B, W, order, r + 1,
                 [load EXCEPT ![w] = @ + weight(B[i])],
                 [owner EXCEPT ![i] = w])

\* the blocks taken in the order of the list
LoadBalancingUnsorted(B, W) ==
  Assign(B, W, [r \in 1..Len(B) |-> r], 1, [w \in 1..W |-> 0], [i \in 1..Len(B) |-> 0])

LoadBalancing(B, W) ==
  Assign(B, W, SortByWeight(B), 1, [w \in 1..W |-> 0], [i \in 1..Len(B) |-> 0])

\* ---------------------------------------------------------------- actions
Abs(x) == IF x < 0 THEN 0 - x ELSE x

\* no transfer is set up: no blocks and no fields are constructed
NoComm ==
  /\ blk = << >>
  /\ fld = << >>
  /\ acc = {}
  /\ comm = [op |-> "none", outcome |-> "none", n |-> 0]

\* no geometry helper is constructed
NoGeo ==
  /\ leaves = {}
  /\ blocks = << >>
  /\ geo = [phase |-> "none", op |-> "none", region |-> NoRegion, k |-> 0,
            targetCount |-> 0, passes |-> 0, grown |-> 0, outcome |-> "none"]

\* LoadBalancing is not called
NoLb == lb = [blocks |-> << >>, W |-> 0, owner |-> << >>, op |-> "none", outcome |-> "none"]

\* no copy of the array is made
NoOther == other = << >>
\* no time loop runs
NoLoop == loop = << >>
\* no synchronous step runs
NoSync == sync = << >>
\* no vtmWriter is constructed
NoVtm == vtm = << >>
\* no moving boundary is constructed
NoBd == bd = << >>

Init ==
  /\ \E size \in Sizes, v \in Values : arr = CyclicArrayCtor(size, v)
  /\ wild = FALSE
  /\ last = [op |-> "ctor", a |-> 0, b |-> 0]
  /\ NoComm
  /\ NoGeo
  /\ NoLb
  /\ NoOther /\ NoLoop /\ NoSync /\ NoVtm /\ NoBd

DoRotate(offset) ==
  /\ Abs(rotate(arr, offset).shift) <= MaxShift
  /\ arr' = rotate(arr, offset)
  /\ last' = [op |-> "rotate", a |-> offset, b |-> 0]
  /\ UNCHANGED <<wild, commVars, geoVars, lb, sysVars>>

DoSet(i, value) ==
  /\ i \in 0..(arr.count - 1)
  /\ arr' = set(arr, i, value)
  /\ wild' = (wild \/ ~InBuf(arr, getdataPtr(arr, i)))
  /\ last' = [op |-> "set", a |-> i, b |-> value]
  /\ UNCHANGED <<commVars, geoVars, lb, sysVars>>

DoInit(value) ==
  /\ arr' = ArrayInit(arr, value)
  /\ last' = [op |-> "Init", a |-> value, b |-> 0]
  /\ UNCHANGED <<wild, commVars, geoVars, lb, sysVars>>

DoResize(size) ==
  /\ arr' = Resize(arr, size)
  /\ last' = [op |-> "Resize", a |-> size, b |-> arr.count]
  /\ UNCHANGED <<wild, commVars, geoVars, lb, sysVars>>

Next ==
  \/ \E offset \in Offsets : DoRotate(offset)
  \/ \E i \in 0..(MaxN - 1), value \in Values : DoSet(i, value)
  \/ \E value \in Values : DoInit(value)
  \/ \E size \in Sizes : DoResize(size)

Spec == Init /\ [][Next]_vars

\* ---------------------------------------------------------------- transfer actions
\* the fields of two blocks, before any transfer
InitComm ==
  /\ arr = CyclicArrayCtor(1, DefaultValue)
  /\ wild = FALSE
  /\ last = [op |-> "ctor", a |-> 0, b |-> 0]
  /\ blk \in BlockPairs
  /\ \E pa \in Patterns, pb \in Patterns :
       fld = [A |-> FieldOf(getN(blk.A), pa), B |-> FieldOf(getN(blk.B), pb)]
  /\ acc = {}
  /\ comm = [op |-> "none", outcome |-> "none", n |-> 0]
  /\ NoGeo
  /\ NoLb
  /\ NoOther /\ NoLoop /\ NoSync /\ NoVtm /\ NoBd

\* what the reads outside an array of n elements return: any value, one per
\* array of the field and call
Junk(plan, n) ==
  {[c \in 0..(FieldD - 1) |-> [id \in OobReads(plan, n) |-> v[c]]] :
     v \in [0..(FieldD - 1) -> JunkValues]}

\* The three routines are void, hold no check of an index and no throw: each
\* call runs its whole loop nest and returns.
\* block A is coarse, block B fine: B receives the interpolation of A
DoInterpolation ==
  /\ comm.n < MaxComm
  /\ blk.A.h = 2 * blk.B.h
  /\ isOverlapped(blk.ABase, blk.BBase)
  /\ LET plan == InterpolationPlan(blk.A, blk.ABase, blk.B, blk.BBase) IN
       /\ \E junk \in Junk(plan, getN(blk.A)) :
            fld' = [fld EXCEPT !.B = FieldInterpolation2D(fld.A, fld.B, blk.A, blk.ABase,
                                                          blk.B, blk.BBase, junk)]
       /\ acc' = Accesses(plan, blk.A, blk.B)
       /\ wild' = (wild \/ OobWrite(plan, getN(blk.B)))
  /\ comm' = [op |-> "interpolate", outcome |-> "returned", n |-> comm.n + 1]
  /\ UNCHANGED <<blk, arrVars, geoVars, lb, sysVars>>

\* block A is coarse, block B fine: A receives the average of B
DoAverage ==
  /\ comm.n < MaxComm
  /\ blk.A.h = 2 * blk.B.h
  /\ isOverlapped(blk.ABase, blk.BBase)
  /\ LET plan == AveragePlan(blk.B, blk.BBase, blk.A, blk.ABase) IN
       /\ \E junk \in Junk(plan, getN(blk.B)) :
            fld' = [fld EXCEPT !.A = FieldAverage2D(fld.B, fld.A, blk.B, blk.BBase,
                                                    blk.A, blk.ABase, junk)]
       /\ acc' = Accesses(plan, blk.B, blk.A)
       /\ wild' = (wild \/ OobWrite(plan, getN(blk.A)))
  /\ comm' = [op |-> "average", outcome |-> "returned", n |-> comm.n + 1]
  /\ UNCHANGED <<blk, arrVars, geoVars, lb, sysVars>>

\* both blocks on one level: B receives the copy of A
DoCopy ==
  /\ comm.n < MaxComm
  /\ blk.A.h = blk.B.h
  /\ isOverlapped(blk.ABase, blk.BBase)
  /\ LET plan == CopyPlan(blk.A, blk.ABase, blk.B, blk.BBase) IN
       /\ \E junk \in Junk(plan, getN(blk.A)) :
            fld' = [fld EXCEPT !.B = FieldCopy2D(fld.A, fld.B, blk.A, blk.ABase,
                                                 blk.B, blk.BBase, junk)]
       /\ acc' = Accesses(plan, blk.A, blk.B)
       /\ wild' = (wild \/ OobWrite(plan, getN(blk.B)))
  /\ comm' = [op |-> "copy", outcome |-> "returned", n |-> comm.n + 1]
  /\ UNCHANGED <<blk, arrVars, geoVars, lb, sysVars>>

NextComm ==
  \/ DoInterpolation
  \/ DoAverage
  \/ DoCopy

SpecComm == InitComm /\ [][NextComm]_vars

\* ---------------------------------------------------------------- geometry actions
\* BlockGeometryHelper2D(Ni, Nj, domain, Cell_Len, Ni / BlockNumX)
InitGeo ==
  /\ arr = CyclicArrayCtor(1, DefaultValue)
  /\ wild = FALSE
  /\ last = [op |-> "ctor", a |-> 0, b |-> 0]
  /\ NoComm
  /\ leaves = InitialPartition
  /\ blocks = << >>
  /\ geo = [phase |-> "forest", op |-> "ctor", region |-> NoRegion, k |-> 0,
            targetCount |-> 0, passes |-> 0, grown |-> 0, outcome |-> "ok"]
  /\ NoLb
  /\ NoOther /\ NoLoop /\ NoSync /\ NoVtm /\ NoBd

\* forEachBlockCell: every leaf that overlaps the region is refined by k
\* levels; a degenerate child mesh ends the set-up with ConfigurationError
DoRefinePass(region, k) ==
  /\ geo.phase = "forest" /\ geo.outcome = "ok"
  /\ geo.passes < MaxPass
  /\ \A b \in Selected(leaves, region) : b.level + k <= MaxLevel
  /\ IF RefineFails(leaves, region, k)
       THEN /\ leaves' = leaves
            /\ geo' = [geo EXCEPT !.op = "refine", !.region = region, !.k = k,
                                  !.passes = @ + 1, !.grown = 0,
                                  !.outcome = "ConfigurationError"]
       ELSE /\ leaves' = RefinePass(leaves, region, k)
            /\ geo' = [geo EXCEPT !.op = "refine", !.region = region, !.k = k,
                                  !.passes = @ + 1,
                                  !.grown = Cardinality(leaves') - Cardinality(leaves)]
  /\ UNCHANGED <<blocks, lb, wild, arrVars, commVars, sysVars>>

DoCheckRefine ==
  /\ geo.phase = "forest" /\ geo.outcome = "ok"
  /\ leaves' = CheckRefine(leaves)
  /\ geo' = [geo EXCEPT !.op = "CheckRefine", !.region = NoRegion, !.k = 0,
                        !.grown = Cardinality(leaves') - Cardinality(leaves)]
  /\ UNCHANGED <<blocks, lb, wild, arrVars, commVars, sysVars>>

DoCreateBlocks ==
  /\ geo.phase = "forest" /\ geo.outcome = "ok"
  /\ blocks' = CreateBlocks(leaves)
  /\ geo' = [geo EXCEPT !.phase = "blocks", !.op = "CreateBlocks",
                        !.region = NoRegion, !.k = 0, !.grown = 0]
  /\ UNCHANGED <<leaves, lb, wild, arrVars, commVars, sysVars>>

DoAdaptiveOptimization(targetCount) ==
  /\ geo.phase = "blocks" /\ geo.op = "CreateBlocks"
  /\ blocks' = AdaptiveOptimization(blocks, targetCount)
  /\ geo' = [geo EXCEPT !.op = "AdaptiveOptimization", !.targetCount = targetCount,
                        !.grown = Len(blocks') - Len(blocks)]
  /\ UNCHANGED <<leaves, lb, wild, arrVars, commVars, sysVars>>

NextGeo ==
  \/ \E region \in Regions, k \in 1..MaxLevel : DoRefinePass(region, k)
  \/ DoCheckRefine
  \/ DoCreateBlocks
  \/ \E targetCount \in TargetCounts(Len(blocks)) : DoAdaptiveOptimization(targetCount)

SpecGeo == InitGeo /\ [][NextGeo]_vars

\* ---------------------------------------------------------------- load balancing actions
InitLb ==
  /\ arr = CyclicArrayCtor(1, DefaultValue)
  /\ wild = FALSE
  /\ last = [op |-> "ctor", a |-> 0, b |-> 0]
  /\ NoComm
  /\ NoGeo
  /\ \E B \in BlockLists :
       lb = [blocks |-> B, W |-> 0, owner |-> << >>, op |-> "none", outcome |-> "none"]
  /\ NoOther /\ NoLoop /\ NoSync /\ NoVtm /\ NoBd

\* LoadBalancing(W): no leaves is a ConfigurationError
DoLoadBalancing(W) ==
  /\ lb.op = "none"
  /\ IF Len(lb.blocks) = 0
       THEN lb' = [lb EXCEPT !.W = W, !.op = "LoadBalancing",
                             !.outcome = "ConfigurationError"]
       ELSE lb' = [lb EXCEPT !.W = W, !.op = "LoadBalancing", !.outcome = "ok",
                             !.owner = LoadBalancing(lb.blocks, W)]
  /\ UNCHANGED <<geoVars, wild, arrVars, commVars, sysVars>>

NextLb == \E W \in 1..MaxWorkers : DoLoadBalancing(W)

SpecLb == InitLb /\ [][NextLb]_vars

\* ---------------------------------------------------------------- moving boundary
Flags == 0..MaxFlag

\* a & b on std::uint8_t
RECURSIVE BitAnd(_, _)
BitAnd(a, b) ==
  IF a = 0 \/ b = 0 THEN 0
  ELSE (a % 2) * (b % 2) + 2 * BitAnd(a \div 2, b \div 2)

\* util::isFlag(flag, mask): the two share a bit; never true for mask 0
isFlag(flag, mask) == BitAnd(flag, mask) # 0

\* the for loop of UpdateBdCells from cell id on: push_back of every id
\* whose flag matches
RECURSIVE PushMatching(_, _, _, _)
PushMatching(Ids, Field, BdCellFlag, id) ==
  IF id \notin DOMAIN Field THEN Ids
  ELSE PushMatching(IF isFlag(Field[id], BdCellFlag) THEN Append(Ids, id) ELSE Ids,
                    Field, BdCellFlag, id + 1)

\* UpdateBdCells without Ids.clear(): the ids are appended to the old list
UpdateBdCellsNoClear(Ids, Field, BdCellFlag) == PushMatching(Ids, Field, BdCellFlag, 0)

\* UpdateBdCells: Ids.clear(), then the loop over all cells
UpdateBdCells(Ids, Field, BdCellFlag) == PushMatching(<< >>, Field, BdCellFlag, 0)

\* the flag fields of up to MaxCells cells
FlagFields == UNION {[0..(n - 1) -> Flags] : n \in 0..MaxCells}

\* the vectors Ids can refer to when the boundary is constructed
IdLists == UNION {[1..k -> 0..(MaxCells - 1)] : k \in 0..MaxIds}

\* MovingBoundary(lat, ids, voidflag, cellflag) or
\* BlockMovingBoundary(lat, ids, f, voidflag, cellflag): Ids and Field are
\* references to objects of the caller
InitBd ==
  /\ arr = CyclicArrayCtor(1, DefaultValue)
  /\ wild = FALSE
  /\ last = [op |-> "ctor", a |-> 0, b |-> 0]
  /\ NoComm
  /\ NoGeo
  /\ NoLb
  /\ NoOther /\ NoLoop /\ NoSync /\ NoVtm
  /\ \E class \in {"MovingBoundary", "BlockMovingBoundary"}, Field \in FlagFields,
        BdCellFlag \in Flags, Ids \in IdLists :
       bd = [class |-> class, Field |-> Field, BdCellFlag |-> BdCellFlag, Ids |-> Ids,
             before |-> Ids, op |-> "ctor", n |-> 0]

\* MovingBoundary::UpdateBdCells
DoUpdateBdCells ==
  /\ bd.class = "MovingBoundary"
  /\ bd.n < MaxBdOps
  /\ bd' = [bd EXCEPT !.Ids = UpdateBdCells(bd.Ids, bd.Field, bd.BdCellFlag),
                       !.before = bd.Ids, !.op = "UpdateBdCells", !.n = @ + 1]
  /\ UNCHANGED <<wild, arrVars, commVars, geoVars, lb, other, loop, sync, vtm>>

\* BlockMovingBoundary::UpdateBdCells
DoBlockUpdateBdCells ==
  /\ bd.class = "BlockMovingBoundary"
  /\ bd.n < MaxBdOps
  /\ bd' = [bd EXCEPT !.Ids = UpdateBdCells(bd.Ids, bd.Field, bd.BdCellFlag),
                       !.before = bd.Ids, !.op = "UpdateBdCells", !.n = @ + 1]
  /\ UNCHANGED <<wild, arrVars, commVars, geoVars, lb, other, loop, sync, vtm>>

\* the owner of the flag field gives cell id another flag
DoSetFlag(id, flag) ==
  /\ bd.n < MaxBdOps
  /\ id \in DOMAIN bd.Field
  /\ bd' = [bd EXCEPT !.Field[id] = flag, !.before = bd.Ids, !.op = "setFlag",
                       !.n = @ + 1]
  /\ UNCHANGED <<wild, arrVars, commVars, geoVars, lb, other, loop, sync, vtm>>

NextBd ==
  \/ DoUpdateBdCells
  \/ DoBlockUpdateBdCells
  \/ \E id \in 0..(MaxCells - 1), flag \in Flags : DoSetFlag(id, flag)

SpecBd == InitBd /\ [][NextBd]_vars

\* ---------------------------------------------------------------- vtmWriter
\* The .vtm file is a sequence of lines.  Every function opens a std::ofstream
\* of its own on it: operator<< puts the line into the buffer of that stream,
\* close() hands the buffer to the file, which was opened with std::ios::app,
\* in one append.
\* vtmHeader: the three lines written to the truncated file
HeaderLines == <<[t |-> "?xml"], [t |-> "VTKFile"], [t |-> "vtkMultiBlockDataSet"]>>

\* vtmEnd
FooterLines == <<[t |-> "/vtkMultiBlockDataSet"], [t |-> "/VTKFile"]>>

\* writevtm(vtmName, vtiName, blockid): the four lines of one block
BlockLines(blockid) ==
  <<[t |-> "Block", index |-> blockid], [t |-> "DataSet", file |-> blockid],
    [t |-> "/DataSet"], [t |-> "/Block"]>>

\* f << line on a stream that writes through to the file at once
InsertUnbuffered(file, buf, line) == [file |-> Append(file, line), buf |-> buf]

\* f << line : the line goes to the buffer of the stream
Insert(file, buf, line) == [file |-> file, buf |-> Append(buf, line)]

\* f.close() : the buffer is appended to the file
Close(file, buf) == [file |-> file \o buf, buf |-> << >>]

\* vtmWriter(filename, blocks): one vti writer per block, nothing written
InitVtm ==
  /\ arr = CyclicArrayCtor(1, DefaultValue)
  /\ wild = FALSE
  /\ last = [op |-> "ctor", a |-> 0, b |-> 0]
  /\ NoComm
  /\ NoGeo
  /\ NoLb
  /\ NoOther /\ NoLoop /\ NoSync /\ NoBd
  /\ \E n \in 0..MaxWriters :
       vtm = [n |-> n, call |-> "none", main |-> "idle", file |-> << >>,
              it |-> [i \in 0..(n - 1) |-> [pc |-> "idle", buf |-> << >>, k |-> 0]],
              vti |-> {}, writes |-> 0]

\* Write() or WriteBinary() is entered: vtmHeader truncates the file and
\* writes the header; the parallel region starts
DoVtmHeader(call) ==
  /\ vtm.main = "idle"
  /\ vtm.writes < MaxWrites
  /\ vtm' = [vtm EXCEPT !.call = call, !.main = "parallel",
                         !.file = Close(<< >>, HeaderLines).file,
                         !.it = [i \in 0..(vtm.n - 1) |->
                                  [pc |-> "vti", buf |-> << >>, k |-> 0]],
                         !.vti = {}, !.writes = @ + 1]
  /\ UNCHANGED <<wild, arrVars, commVars, geoVars, lb, other, loop, sync, bd>>

\* iteration i of the parallel loop: vti.Write() or vti.WriteBinary()
DoVtiWrite(i) ==
  /\ vtm.main = "parallel"
  /\ vtm.it[i].pc = "vti"
  /\ vtm' = [vtm EXCEPT !.it[i].pc = "open", !.vti = @ \cup {i}]
  /\ UNCHANGED <<wild, arrVars, commVars, geoVars, lb, other, loop, sync, bd>>

\* writevtm of iteration i: std::ofstream f(vtmName, std::ios::app)
DoOpen(i) ==
  /\ vtm.main = "parallel"
  /\ vtm.it[i].pc = "open"
  /\ vtm' = [vtm EXCEPT !.it[i] = [pc |-> "insert", buf |-> << >>, k |-> 0]]
  /\ UNCHANGED <<wild, arrVars, commVars, geoVars, lb, other, loop, sync, bd>>

\* writevtm of iteration i: the next f << line
DoInsert(i) ==
  /\ vtm.main = "parallel"
  /\ vtm.it[i].pc = "insert"
  /\ LET r == Insert(vtm.file, vtm.it[i].buf, BlockLines(i)[vtm.it[i].k + 1])
      IN vtm' = [vtm EXCEPT !.file = r.file,
                            !.it[i] = [pc |-> IF vtm.it[i].k + 1 = Len(BlockLines(i))
                                                THEN "close" ELSE "insert",
                                       buf |-> r.buf, k |-> vtm.it[i].k + 1]]
  /\ UNCHANGED <<wild, arrVars, commVars, geoVars, lb, other, loop, sync, bd>>

\* writevtm of iteration i: f.close()
DoClose(i) ==
  /\ vtm.main = "parallel"
  /\ vtm.it[i].pc = "close"
  /\ LET r == Close(vtm.file, vtm.it[i].buf)
      IN vtm' = [vtm EXCEPT !.file = r.file, !.it[i].pc = "done", !.it[i].buf = r.buf]
  /\ UNCHANGED <<wild, arrVars, commVars, geoVars, lb, other, loop, sync, bd>>

\* the parallel region has ended (every iteration is done): vtmEnd appends
\* the footer and the call returns
DoVtmEnd ==
  /\ vtm.main = "parallel"
  /\ \A i \in 0..(vtm.n - 1) : vtm.it[i].pc = "done"
  /\ vtm' = [vtm EXCEPT !.main = "idle", !.file = Close(@, FooterLines).file]
  /\ UNCHANGED <<wild, arrVars, commVars, geoVars, lb, other, loop, sync, bd>>

NextVtm ==
  \/ \E call \in {"Write", "WriteBinary"} : DoVtmHeader(call)
  \/ \E i \in 0..(MaxWriters - 1) :
       /\ i < vtm.n
       /\ DoVtiWrite(i) \/ DoOpen(i) \/ DoInsert(i) \/ DoClose(i)
  \/ DoVtmEnd

SpecVtm == InitVtm /\ [][NextVtm]_vars

\* ---------------------------------------------------------------- time loops
\* One call of a loop body: the object it is made on, what it is, and whether
\* it stands inside `if (MainLoopTimer() % OutputStep == 0)`.
Call(obj, kind, out) == [obj |-> obj, kind |-> kind, out |-> out]

\* the loop body with the communication of the NS lattice moved up in front
\* of its Stream
BodyCommFirst(prog) ==
  <<Call("Timer", "increment", FALSE),
    Call("NS", "cell", FALSE),
    Call("NS", "communicate", FALSE),
    Call("NS", "stream", FALSE),
    Call("NS", "apply", FALSE),
    Call("Writer", "write", TRUE)>>

\* the statements of the body of `while (MainLoopTimer() < MaxStep)`
Body(prog) ==
  IF prog = "cazsblock2d"
    THEN <<Call("NS", "initValue", FALSE),      \* SCALARFORCE InitValue
           Call("SObuoyancy", "cell", FALSE),
           Call("THbuoyancy", "cell", FALSE),
           Call("NS", "cell", FALSE),
           Call("NS", "stream", FALSE),
           Call("NS", "apply", FALSE),          \* NS_BB
           Call("NS", "apply", FALSE),          \* NS_MBB
           Call("NS", "apply", FALSE),          \* NS_Inlet
           Call("NS", "apply", FALSE),          \* NS_Outlet
           Call("NS", "communicate", FALSE),    \* POP
           Call("SO", "cell", FALSE),
           Call("SO", "stream", FALSE),
           Call("SO", "apply", FALSE),          \* SO_BB
           Call("SO", "apply", FALSE),          \* SO_MBB
           Call("SO", "apply", FALSE),          \* SO_IOBB
           Call("SO", "communicate", FALSE),    \* POP
           Call("CA", "capture", FALSE),        \* Apply_SimpleCapture
           Call("Timer", "increment", FALSE),
           Call("NS", "communicate", TRUE),     \* VELOCITY
           Call("SO", "communicate", TRUE),     \* CONC
           Call("CA", "communicate", TRUE),
           Call("Writer", "write", TRUE)>>
    ELSE <<Call("Timer", "increment", FALSE),   \* pipeinjection3d
           Call("NS", "cell", FALSE),           \* NSTaskSelector
           Call("NS", "cell", FALSE),           \* InletTaskSelector
           Call("NS", "stream", FALSE),
           Call("NS", "apply", FALSE),          \* NS_Inlet
           Call("NS", "communicate", FALSE),    \* NormalAllCommunicate
           Call("NS", "freeSurface", FALSE),    \* FreeSurfaceApply::Apply
           Call("NS", "setField", TRUE),
           Call("Writer", "write", TRUE)>>

Programs == {"cazsblock2d", "pipeinjection3d"}
Objects == {"NS", "SO", "CA", "SObuoyancy", "THbuoyancy", "Timer", "Writer"}
CallKinds == {"cell", "stream", "apply", "communicate"}

\* the timers are reset, the loop is not yet entered; `at` is the iteration
\* in which the object last got a call of the kind, 0 for never, and `dirty`
\* tells whether the object had a cell update since its last Stream
InitLoop ==
  /\ arr = CyclicArrayCtor(1, DefaultValue)
  /\ wild = FALSE
  /\ last = [op |-> "ctor", a |-> 0, b |-> 0]
  /\ NoComm
  /\ NoGeo
  /\ NoLb
  /\ NoOther /\ NoSync /\ NoVtm /\ NoBd
  /\ \E prog \in Programs, MaxStep \in 1..MaxSteps, OutputStep \in 1..MaxOutputStep :
       loop = [prog |-> prog, MaxStep |-> MaxStep, OutputStep |-> OutputStep,
               MainLoopTimer |-> 0, pc |-> 0, it |-> 0,
               call |-> Call("none", "none", FALSE),
               at |-> [o \in Objects |-> [k \in CallKinds |-> 0]],
               dirty |-> [o \in Objects |-> FALSE]]

\* the statement the loop is at; pc = 0 is the test of the while
Current == Body(loop.prog)[loop.pc]

\* the statement at pc is reached and, when it stands in the output branch,
\* the branch is taken
Runs(kinds) ==
  /\ loop.pc \in 1..Len(Body(loop.prog))
  /\ Current.kind \in kinds
  /\ Current.out => loop.MainLoopTimer % loop.OutputStep = 0

\* the position after the statement at pc: back to the test after the last
Advance == IF loop.pc = Len(Body(loop.prog)) THEN 0 ELSE loop.pc + 1

\* while (MainLoopTimer() < MaxStep): the next iteration is entered
DoLoopTest ==
  /\ loop.pc = 0
  /\ loop.MainLoopTimer < loop.MaxStep
  /\ loop' = [loop EXCEPT !.pc = 1, !.it = @ + 1, !.call = Call("Timer", "test", FALSE)]
  /\ UNCHANGED <<wild, arrVars, commVars, geoVars, lb, other, sync, vtm, bd>>

\* ApplyCellDynamics
DoCellUpdate ==
  /\ Runs({"cell"})
  /\ loop' = [loop EXCEPT !.pc = Advance, !.call = Current,
                          !.at[Current.obj]["cell"] = loop.it,
                          !.dirty[Current.obj] = TRUE]
  /\ UNCHANGED <<wild, arrVars, commVars, geoVars, lb, other, sync, vtm, bd>>

\* Stream
DoStream ==
  /\ Runs({"stream"})
  /\ loop' = [loop EXCEPT !.pc = Advance, !.call = Current,
                          !.at[Current.obj]["stream"] = loop.it,
                          !.dirty[Current.obj] = FALSE]
  /\ UNCHANGED <<wild, arrVars, commVars, geoVars, lb, other, sync, vtm, bd>>

\* Apply of a boundary
DoBoundaryApply ==
  /\ Runs({"apply"})
  /\ loop' = [loop EXCEPT !.pc = Advance, !.call = Current,
                          !.at[Current.obj]["apply"] = loop.it]
  /\ UNCHANGED <<wild, arrVars, commVars, geoVars, lb, other, sync, vtm, bd>>

\* Communicate or NormalAllCommunicate
DoCommunicate ==
  /\ Runs({"communicate"})
  /\ loop' = [loop EXCEPT !.pc = Advance, !.call = Current,
                          !.at[Current.obj]["communicate"] = loop.it]
  /\ UNCHANGED <<wild, arrVars, commVars, geoVars, lb, other, sync, vtm, bd>>

\* ++MainLoopTimer; ++OutputTimer
DoIncrement ==
  /\ Runs({"increment"})
  /\ loop' = [loop EXCEPT !.pc = Advance, !.call = Current, !.MainLoopTimer = @ + 1]
  /\ UNCHANGED <<wild, arrVars, commVars, geoVars, lb, other, sync, vtm, bd>>

\* the other calls of the bodies: InitValue, Apply_SimpleCapture,
\* FreeSurfaceApply, forEach SetField, the writers
DoOtherCall ==
  /\ Runs({"initValue", "capture", "freeSurface", "setField", "write"})
  /\ loop' = [loop EXCEPT !.pc = Advance, !.call = Current]
  /\ UNCHANGED <<wild, arrVars, commVars, geoVars, lb, other, sync, vtm, bd>>

\* if (MainLoopTimer() % OutputStep == 0) is false: the branch is skipped
DoSkipOutput ==
  /\ loop.pc \in 1..Len(Body(loop.prog))
  /\ Current.out
  /\ loop.MainLoopTimer % loop.OutputStep # 0
  /\ loop' = [loop EXCEPT !.pc = 0, !.call = Call("Timer", "skip", FALSE)]
  /\ UNCHANGED <<wild, arrVars, commVars, geoVars, lb, other, sync, vtm, bd>>

NextLoop ==
  \/ DoLoopTest
  \/ DoCellUpdate
  \/ DoStream
  \/ DoBoundaryApply
  \/ DoCommunicate
  \/ DoIncrement
  \/ DoOtherCall
  \/ DoSkipOutput

SpecLoop == InitLoop /\ [][NextLoop]_vars

\* ---------------------------------------------------------------- synchronous step
\* The workers of a run and its communication graph, fixed at partition
\* time: an unordered pair of workers whose blocks are neighbours exchanges
\* one transfer in each direction in every step.
SyncWorkers == 1..MaxSyncWorkers
Topologies == SUBSET {<<1, 2>>, <<1, 3>>, <<2, 3>>}

\* the workers w expects a transfer from
Expected(nbr, w) == {v \in SyncWorkers : <<v, w>> \in nbr \/ <<w, v>> \in nbr}

\* a transfer of step s from v to w; sized tells whether it has the expected size
Transfer(v, w, s, sized) == [from |-> v, to |-> w, step |-> s, sized |-> sized]

\* a barrier test that takes any transfer of the step, whatever its size
ArrivedLax(inbox, nbr, w, s) ==
  \A v \in Expected(nbr, w) : \E sized \in BOOLEAN : Transfer(v, w, s, sized) \in inbox

\* every transfer worker w expects for step s has arrived with the right size
Arrived(inbox, nbr, w, s) ==
  \A v \in Expected(nbr, w) : Transfer(v, w, s, TRUE) \in inbox

\* the run starts: every worker is about to update the interior of its blocks
InitSync ==
  /\ arr = CyclicArrayCtor(1, DefaultValue)
  /\ wild = FALSE
  /\ last = [op |-> "ctor", a |-> 0, b |-> 0]
  /\ NoComm
  /\ NoGeo
  /\ NoLb
  /\ NoOther /\ NoLoop /\ NoVtm /\ NoBd
  /\ \E nbr \in Topologies :
       sync = [nbr |-> nbr, run |-> "running",
               phase |-> [w \in SyncWorkers |-> "update"],
               step |-> [w \in SyncWorkers |-> 1],
               inbox |-> {}]

\* phase 1: worker w updates the interior of its blocks from its own ghost layers
DoInteriorUpdate(w) ==
  /\ sync.run = "running"
  /\ sync.phase[w] = "update"
  /\ sync' = [sync EXCEPT !.phase[w] = "send"]
  /\ UNCHANGED <<wild, arrVars, commVars, geoVars, lb, other, loop, vtm, bd>>

\* worker w packs and sends the transfers of the step and goes to the
\* barrier; a defect leaves a transfer out or gives it another size
DoSend(w) ==
  /\ sync.run = "running"
  /\ sync.phase[w] = "send"
  /\ \E outcome \in [Expected(sync.nbr, w) -> {"sent", "absent", "mis-sized"}] :
       sync' = [sync EXCEPT
                  !.phase[w] = "barrier",
                  !.inbox = @ \cup {Transfer(w, v, sync.step[w], outcome[v] = "sent") :
                                      v \in {u \in Expected(sync.nbr, w) :
                                               outcome[u] # "absent"}}]
  /\ UNCHANGED <<wild, arrVars, commVars, geoVars, lb, other, loop, vtm, bd>>

\* phase 2: all workers are at the barrier and every expected transfer of
\* the step has arrived: the barrier opens
DoBarrier ==
  /\ sync.run = "running"
  /\ \A w \in SyncWorkers : sync.phase[w] = "barrier"
  /\ \A w \in SyncWorkers : Arrived(sync.inbox, sync.nbr, w, sync.step[w])
  /\ sync' = [sync EXCEPT !.phase = [w \in SyncWorkers |-> "refresh"]]
  /\ UNCHANGED <<wild, arrVars, commVars, geoVars, lb, other, loop, vtm, bd>>

\* all workers are at the barrier and an expected transfer is absent or
\* mis-sized: ProtocolError, fatal for the run
DoProtocolError ==
  /\ sync.run = "running"
  /\ \A w \in SyncWorkers : sync.phase[w] = "barrier"
  /\ \E w \in SyncWorkers : ~Arrived(sync.inbox, sync.nbr, w, sync.step[w])
  /\ sync' = [sync EXCEPT !.run = "ProtocolError"]
  /\ UNCHANGED <<wild, arrVars, commVars, geoVars, lb, other, loop, vtm, bd>>

\* phase 3: worker w unpacks the transfers of the step into its ghost
\* layers and goes on to the next step
DoRefresh(w) ==
  /\ sync.run = "running"
  /\ sync.phase[w] = "refresh"
  /\ sync' = [sync EXCEPT
                 !.inbox = {m \in @ : ~(m.to = w /\ m.step = sync.step[w])},
                 !.step[w] = @ + 1,
                 !.phase[w] = IF sync.step[w] = MaxSyncSteps THEN "done" ELSE "update"]
  /\ UNCHANGED <<wild, arrVars, commVars, geoVars, lb, other, loop, vtm, bd>>

NextSync ==
  \/ \E w \in SyncWorkers : DoInteriorUpdate(w)
  \/ \E w \in SyncWorkers : DoSend(w)
  \/ DoBarrier
  \/ DoProtocolError
  \/ \E w \in SyncWorkers : DoRefresh(w)

\* the workers keep running: a step that can be taken is taken
SpecSync == InitSync /\ [][NextSync]_vars /\ WF_vars(NextSync)

\* ---------------------------------------------------------------- copy actions
\* one array is constructed; its copy is not
InitCopy ==
  /\ \E size \in Sizes, v \in Values : arr = CyclicArrayCtor(size, v)
  /\ wild = FALSE
  /\ last = [op |-> "ctor", on |-> "arr", a |-> 0, b |-> 0, n |-> 0]
  /\ NoComm
  /\ NoGeo
  /\ NoLb
  /\ NoOther /\ NoLoop /\ NoSync /\ NoVtm /\ NoBd

\* what a store through a pointer outside its buffer can do to the array x
\* that lives next to it: nothing, or overwrite one of its elements
Clobbered(x) ==
  IF x = << >> THEN {x}
  ELSE {x} \cup {[x EXCEPT !.data[p] = v] : p \in DOMAIN x.data, v \in Values}

\* CyclicArray other(arr)
DoCopyConstruct ==
  /\ last.n < MaxCopyOps
  /\ other = << >>
  /\ other' = CyclicArrayCopy(arr)
  /\ last' = [op |-> "copy", on |-> "other", a |-> 0, b |-> 0, n |-> last.n + 1]
  /\ UNCHANGED <<arr, wild, commVars, geoVars, lb, loop, sync, vtm, bd>>

\* other = arr
DoAssign ==
  /\ last.n < MaxCopyOps
  /\ other # << >>
  /\ other' = OperatorAssign(other, arr, FALSE)
  /\ last' = [op |-> "assign", on |-> "other", a |-> 0, b |-> 0, n |-> last.n + 1]
  /\ UNCHANGED <<arr, wild, commVars, geoVars, lb, loop, sync, vtm, bd>>

\* arr = arr
DoSelfAssign ==
  /\ last.n < MaxCopyOps
  /\ arr' = OperatorAssign(arr, arr, TRUE)
  /\ last' = [op |-> "selfassign", on |-> "arr", a |-> 0, b |-> 0, n |-> last.n + 1]
  /\ UNCHANGED <<wild, commVars, geoVars, lb, sysVars>>

\* arr.rotate(offset)
DoRotateArr(offset) ==
  /\ last.n < MaxCopyOps
  /\ arr' = rotate(arr, offset)
  /\ last' = [op |-> "rotate", on |-> "arr", a |-> offset, b |-> 0, n |-> last.n + 1]
  /\ UNCHANGED <<wild, commVars, geoVars, lb, sysVars>>

\* other.rotate(offset)
DoRotateOther(offset) ==
  /\ last.n < MaxCopyOps
  /\ other # << >>
  /\ other' = rotate(other, offset)
  /\ last' = [op |-> "rotate", on |-> "other", a |-> offset, b |-> 0, n |-> last.n + 1]
  /\ UNCHANGED <<arr, wild, commVars, geoVars, lb, loop, sync, vtm, bd>>

\* arr.set(i, value)
DoSetArr(i, value) ==
  /\ last.n < MaxCopyOps
  /\ i \in 0..(arr.count - 1)
  /\ arr' = set(arr, i, value)
  /\ wild' = (wild \/ ~InBuf(arr, getdataPtr(arr, i)))
  /\ other' \in (IF InBuf(arr, getdataPtr(arr, i)) THEN {other} ELSE Clobbered(other))
  /\ last' = [op |-> "set", on |-> "arr", a |-> i, b |-> value, n |-> last.n + 1]
  /\ UNCHANGED <<commVars, geoVars, lb, loop, sync, vtm, bd>>

\* other.set(i, value)
DoSetOther(i, value) ==
  /\ last.n < MaxCopyOps
  /\ other # << >>
  /\ i \in 0..(other.count - 1)
  /\ other' = set(other, i, value)
  /\ wild' = (wild \/ ~InBuf(other, getdataPtr(other, i)))
  /\ arr' \in (IF InBuf(other, getdataPtr(other, i)) THEN {arr} ELSE Clobbered(arr))
  /\ last' = [op |-> "set", on |-> "other", a |-> i, b |-> value, n |-> last.n + 1]
  /\ UNCHANGED <<commVars, geoVars, lb, loop, sync, vtm, bd>>

NextCopy ==
  \/ DoCopyConstruct
  \/ DoAssign
  \/ DoSelfAssign
  \/ \E offset \in Offsets : DoRotateArr(offset)
  \/ \E offset \in Offsets : DoRotateOther(offset)
  \/ \E i \in 0..(MaxN - 1), value \in Values : DoSetArr(i, value)
  \/ \E i \in 0..(MaxN - 1), value \in Values : DoSetOther(i, value)

SpecCopy == InitCopy /\ [][NextCopy]_vars

TypeOK ==
  /\ arr.count \in Sizes
  /\ DOMAIN arr.data = 0..(arr.count - 1)
  /\ \A p \in DOMAIN arr.data : arr.data[p] \in Values
  /\ arr.lastOffset \in Offsets
  /\ wild \in BOOLEAN

\* ---------------------------------------------------------------- claims
Idx(a) == 0 .. (a.count - 1)

\* two reads certainly return the same value
SameValue(S, T) == \E v \in Values : S = {v} /\ T = {v}

\* the arrays x and y read the same at every logical index
SameContent(x, y) == \A i \in Idx(x) : SameValue(get(x, i), get(y, i))

\* shift is inside (-N, N): the range refresh resolves inside the buffer
ShiftInRange(a) == (0 - a.count) < a.shift /\ a.shift < a.count

\* C1: set(i, v) immediately followed by get(i) returns v, in any state
\* reached by any sequence of rotate calls.
C1_SetGetRoundTrip ==
  last.op = "set" => get(arr, last.a) = {last.b}

\* C2: after rotate(k), get(i) is the value get((i - k) mod N) returned
\* immediately before the rotate, for every i and every offset k.
C2_RotateIsCircularShift ==
  [][last'.op = "rotate" =>
       \A i \in Idx(arr) :
         SameValue(get(arr', i), get(arr, (i - last'.a) % arr.count))]_vars

\* C3: rotate(a) followed by rotate(b) reads the same as a single
\* rotate((a + b) mod N) from the same state, for all integers a and b.
C3_RotateComposes ==
  [][last'.op = "rotate" =>
       \A b \in Offsets :
         SameContent(rotate(arr', b), rotate(arr, (last'.a + b) % arr.count))]_vars

\* C4: rotate(k*N) leaves every get(i) unchanged and keeps every access
\* inside the buffer, for any integer k.
C4_FullTurnNoOp ==
  [][(last'.op = "rotate" /\ last'.a % arr.count = 0) =>
       \A i \in Idx(arr) :
         /\ SameValue(get(arr', i), get(arr, i))
         /\ InBuf(arr', getdataPtr(arr', i))]_vars

\* C5: rotate(k) followed by rotate(-k) restores, for every index, the value
\* get(i) had before the first rotate, for any state and any offset k.
C5_InverseRotation ==
  [][last'.op = "rotate" =>
       SameContent(rotate(arr', 0 - last'.a), arr)]_vars

\* C6: after every rotate(offset) shift lies strictly inside (-N, N),
\* remainder is the split point derived from shift, and lastOffset is the
\* offset just applied.
C6_RotateWellFormed ==
  last.op = "rotate" =>
    /\ ShiftInRange(arr)
    /\ arr.remainder = (IF arr.shift >= 0 THEN arr.count - arr.shift - 1
                                          ELSE (0 - arr.shift) - 1)
    /\ arr.lastOffset = last.a

\* C7: in every reachable state every logical index i in [0,N) resolves to a
\* physical position in [0,N) of the buffer.
C7_AccessInBuffer ==
  \A i \in Idx(arr) : InBuf(arr, getdataPtr(arr, i))

\* C8: immediately after rotate(k), getPrevious(i) refers to the element
\* get(i) referred to before that rotate, inside the buffer; before any rotate
\* getPrevious(i) is get(i).
C8_GetPreviousStep ==
  last'.op = "rotate" =>
    \A i \in Idx(arr) :
      /\ getPreviousPtr(arr', i) = getdataPtr(arr, i)
      /\ InBuf(arr', getPreviousPtr(arr', i))

C8_GetPreviousInitially ==
  (last'.op # "rotate" /\ arr'.lastOffset = 0) =>
    \A i \in Idx(arr') : getPreviousPtr(arr', i) = getdataPtr(arr', i)

C8_GetPrevious == [][C8_GetPreviousStep /\ C8_GetPreviousInitially]_vars

\* C10: every cell FieldCopy2D, FieldAverage2D and FieldInterpolation2D read or
\* write has local coordinates 0 <= x < Nx, 0 <= y < Ny of its own block and
\* the linear id x + y*Nx, the interpolation stencil cells included.
C10_AccessInsideBlock ==
  \A a \in acc :
    /\ 0 <= a.x /\ a.x < a.Nx
    /\ 0 <= a.y /\ a.y < a.Ny
    /\ a.id = a.x + a.y * a.Nx

\* C9: rotate(offset) is zero-copy: it changes only shift, remainder, the two
\* segment starts and lastOffset; count and every buffer element stay.
C9_RotateZeroCopy ==
  [][last'.op = "rotate" =>
       /\ arr'.count = arr.count
       /\ arr'.data = arr.data]_vars

\* a rotate by a non-zero offset was applied to a buffer holding two
\* different values, so a physical move of the elements would show
C9_Witness ==
  /\ last.op = "rotate"
  /\ last.a % arr.count # 0
  /\ \E p, q \in DOMAIN arr.data : arr.data[p] # arr.data[q]

\* ---------------------------------------------------------------- transfer claims
\* the rectangle the transfer of the two blocks works on
Intsec == getIntersection(blk.ABase, blk.BBase)

\* the cells of block b that lie inside the box, as local coordinates
CellsInside(b, box) ==
  {c \in (0..(b.Nx - 1)) \X (0..(b.Ny - 1)) :
     /\ box.min[1] <= b.min[1] + c[1] * b.h
     /\ b.min[1] + (c[1] + 1) * b.h <= box.max[1]
     /\ box.min[2] <= b.min[2] + c[2] * b.h
     /\ b.min[2] + (c[2] + 1) * b.h <= box.max[2]}

\* the linear index of local cell c of block b
LocalId(b, c) == c[1] + c[2] * b.Nx

\* the cell of block `to` that holds the lower corner of cell c of block b
CellAt(to, b, c) ==
  <<(b.min[1] + c[1] * b.h - to.min[1]) \div to.h,
    (b.min[2] + c[2] * b.h - to.min[2]) \div to.h>>

\* C11: when the rectangle of a transfer (stencil shift included) reaches
\* outside a field array, the routine ends in IndexError and no field value
\* is written.
C11_OutOfBoundReported ==
  [][(comm'.n = comm.n + 1 /\ \E a \in acc' : ~InArray(a.id, a.Nx * a.Ny)) =>
       /\ comm'.outcome = "IndexError"
       /\ fld' = fld]_vars

PlanOfInterpolation == InterpolationPlan(blk.A, blk.ABase, blk.B, blk.BBase)

CountW(st, v) == Cardinality({j \in 1..Len(st.w) : st.w[j] = v})

\* which half of its coarse cell the fine cell c of block B lies in: 0 or 1
\* per axis
Quadrant(c) ==
  LET p == CellAt(blk.A, blk.B, c) IN
  <<(blk.B.min[1] + c[1] * blk.B.h - (blk.A.min[1] + p[1] * blk.A.h)) \div blk.B.h,
    (blk.B.min[2] + c[2] * blk.B.h - (blk.A.min[2] + p[2] * blk.A.h)) \div blk.B.h>>

\* C12: in every stencil case the weights are a permutation of 9/16, 3/16,
\* 3/16, 1/16 and sum to 1; 9/16 goes to the coarse cell that contains the
\* fine cell and 1/16 to the diagonally opposite cell of the stencil, which
\* lies on the side of the quadrant the fine cell occupies.
C12_StencilWeights ==
  comm.op = "interpolate" =>
    \A k \in DOMAIN PlanOfInterpolation :
      LET st == PlanOfInterpolation[k]
          fc == <<st.dst.x, st.dst.y>>
          parent == CellAt(blk.A, blk.B, fc)
          quad == Quadrant(fc)
      IN /\ Len(st.w) = 4 /\ st.den = 16
         /\ CountW(st, 9) = 1 /\ CountW(st, 3) = 2 /\ CountW(st, 1) = 1
         /\ st.w[1] + st.w[2] + st.w[3] + st.w[4] = st.den
         /\ \A i \in 1..4 :
              st.w[i] = 9 => <<st.src[i].x, st.src[i].y>> = parent
         /\ \A j \in 1..4 :
              st.w[j] = 1 =>
                <<st.src[j].x, st.src[j].y>> =
                  <<parent[1] + 2 * quad[1] - 1, parent[2] + 2 * quad[2] - 1>>

\* every element of every array of field F is v
IsConstant(F, v) == \A c \in DOMAIN F : \A id \in DOMAIN F[c] : F[c][id] = v

\* a coarse field holding the constant v everywhere is interpolated: every
\* fine cell of the intersection receives v
C13_InterpolateStep ==
  \A v \in JunkValues :
    (comm'.op = "interpolate" /\ comm'.n = comm.n + 1 /\ IsConstant(fld.A, v)) =>
      \A cell \in CellsInside(blk.B, Intsec), c \in 0..(FieldD - 1) :
        fld'.B[c][LocalId(blk.B, cell)] = v

\* the average that follows gives v back to every coarse cell of the
\* intersection
C13_AverageStep ==
  \A v \in JunkValues :
    (comm.op = "interpolate" /\ comm'.op = "average" /\ IsConstant(fld.A, v)) =>
      \A cell \in CellsInside(blk.A, Intsec), c \in 0..(FieldD - 1) :
        fld'.A[c][LocalId(blk.A, cell)] = v

\* C13: a constant coarse field c is interpolated to exactly c in every fine
\* cell of the intersection, and the average that follows writes exactly c
\* back into every coarse cell of the intersection.
C13_ConstantRoundTrip == [][C13_InterpolateStep /\ C13_AverageStep]_vars

\* C14: FieldAverage2D writes into every coarse cell of the intersection, for
\* every component, the mean (f00 + f10 + f01 + f11) / 4 of the four fine
\* cells that cover it.
C14_AverageIsMeanOfChildren ==
  [][(comm'.op = "average" /\ comm'.n = comm.n + 1) =>
       \A cell \in CellsInside(blk.A, Intsec), c \in 0..(FieldD - 1) :
         LET f0 == CellAt(blk.B, blk.A, cell)
             F(dx, dy) == fld.B[c][LocalId(blk.B, <<f0[1] + dx, f0[2] + dy>>)]
         IN 4 * fld'.A[c][LocalId(blk.A, cell)] =
              F(0, 0) + F(1, 0) + F(0, 1) + F(1, 1)]_vars

\* C15: after FieldCopy2D every destination cell inside the intersection
\* holds, in each of the D components, the value of the source cell at the
\* same physical position.
C15_CopyElementForElement ==
  [][(comm'.op = "copy" /\ comm'.n = comm.n + 1) =>
       \A cell \in CellsInside(blk.B, Intsec), c \in 0..(FieldD - 1) :
         fld'.B[c][LocalId(blk.B, cell)] =
           fld.A[c][LocalId(blk.A, CellAt(blk.A, blk.B, cell))]]_vars

\* a copy between two blocks offset against each other took place, from a
\* source whose elements all differ into a destination that held a constant
C15_Witness ==
  /\ comm.op = "copy"
  /\ blk.A.min # blk.B.min
  /\ Cardinality(CellsInside(blk.B, Intsec)) >= 4
  /\ \A i, j \in DOMAIN fld.A[0] : i # j => fld.A[0][i] # fld.A[0][j]
  /\ \E i, j \in DOMAIN fld.B[1] : i # j /\ fld.B[1][i] = fld.B[1][j]

\* ---------------------------------------------------------------- geometry claims
\* the blocks the helper holds: the flattened list once it exists, else the
\* leaves of the forest
CurrentBlocks ==
  IF geo.phase = "blocks" THEN {blocks[i] : i \in DOMAIN blocks} ELSE leaves

\* the length of the face piece two boxes share: they touch along one axis
\* and overlap along the other
SharesFace(a, b) ==
  LET ox == Min2(a.max[1], b.max[1]) - Max2(a.min[1], b.min[1])
      oy == Min2(a.max[2], b.max[2]) - Max2(a.min[2], b.min[2])
  IN (ox = 0 /\ oy > 0) \/ (oy = 0 /\ ox > 0)

\* the unit square with lower corner p lies in box c
HoldsUnit(c, p) ==
  /\ c.min[1] <= p[1] /\ p[1] < c.max[1]
  /\ c.min[2] <= p[2] /\ p[2] < c.max[2]

\* the boxes of S tile the box: none reaches outside, and every unit square
\* of the box lies in exactly one of them
Tiles(S, box) ==
  /\ \A c \in S :
       /\ box.min[1] <= c.min[1] /\ c.min[1] < c.max[1] /\ c.max[1] <= box.max[1]
       /\ box.min[2] <= c.min[2] /\ c.min[2] < c.max[2] /\ c.max[2] <= box.max[2]
  /\ \A p \in (box.min[1]..(box.max[1] - 1)) \X (box.min[2]..(box.max[2] - 1)) :
       Cardinality({c \in S : HoldsUnit(c, p)}) = 1

\* C16: after the refinement pass and CheckRefine any two face-adjacent
\* leaves differ in level by at most 1.
C16_TwoToOneBalance ==
  geo.op = "CheckRefine" =>
    \A a, b \in leaves :
      SharesFace(a, b) => (a.level - b.level <= 1 /\ b.level - a.level <= 1)

\* CheckRefine refined leaves of a forest that holds a leaf two levels deep
C16_Witness ==
  /\ geo.op = "CheckRefine"
  /\ geo.grown > 0
  /\ \E a, b, c \in leaves : a.level = 0 /\ b.level = 1 /\ c.level = 2

\* C17: after any sequence of refine, CheckRefine, CreateBlocks and
\* AdaptiveOptimization steps the blocks cover the root domain exactly and no
\* two of them overlap.
C17_Partition ==
  geo.phase \in {"forest", "blocks"} => Tiles(CurrentBlocks, Domain)

\* AdaptiveOptimization changed the list made from a refined and balanced
\* forest, and blocks of two levels, one of them not square, are in it
C17_Witness ==
  /\ geo.op = "AdaptiveOptimization"
  /\ geo.grown # 0
  /\ geo.passes > 0
  /\ \E a, b \in CurrentBlocks : a.level # b.level /\ Width(a) # Height(a)

RECURSIVE SumWeights(_, _)
SumWeights(B, I) ==
  IF I = {} THEN 0
  ELSE LET i == CHOOSE j \in I : TRUE IN weight(B[i]) + SumWeights(B, I \ {i})

\* the load of worker w: the weight of the blocks among I it owns
LoadOf(B, owner, I, w) == SumWeights(B, {i \in I : owner[i] = w})

MaxLoad ==
  CHOOSE m \in {LoadOf(lb.blocks, lb.owner, DOMAIN lb.blocks, w) : w \in 1..lb.W} :
    \A w \in 1..lb.W : LoadOf(lb.blocks, lb.owner, DOMAIN lb.blocks, w) <= m

\* C19: LoadBalancing(W) takes the blocks in descending weight and gives each
\* to exactly one worker, one with the smallest load at that moment; weights
\* [10,10,10,10] on 2 workers give a maximum load of 20.
C19_LongestProcessingTime ==
  (lb.op = "LoadBalancing" /\ lb.outcome = "ok") =>
    LET B == lb.blocks
        n == Len(B)
    IN /\ DOMAIN lb.owner = 1..n
       /\ \A i \in 1..n : lb.owner[i] \in 1..lb.W
       /\ \E p \in [1..n -> 1..n] :
            /\ \A r, q \in 1..n : r # q => p[r] # p[q]
            /\ \A r \in 1..(n - 1) : weight(B[p[r]]) >= weight(B[p[r + 1]])
            /\ \A r \in 1..n :
                 LET earlier == {p[q] : q \in 1..(r - 1)}
                 IN \A v \in 1..lb.W :
                      LoadOf(B, lb.owner, earlier, lb.owner[p[r]]) <=
                        LoadOf(B, lb.owner, earlier, v)
       /\ (n = 4 /\ lb.W = 2 /\ \A i \in 1..n : weight(B[i]) = 10) => MaxLoad = 20

\* four blocks of weight 10 were balanced over 2 workers
C19_Witness ==
  /\ lb.op = "LoadBalancing" /\ lb.outcome = "ok"
  /\ Len(lb.blocks) = 4 /\ lb.W = 2
  /\ \A i \in 1..4 : weight(lb.blocks[i]) = 10
  /\ MaxLoad = 20

\* C20: with more workers than blocks (and at least one block)
\* LoadBalancing(W) ends without error, every block has a worker, no worker
\* has more than one block, and the other workers have none.
C20_MoreWorkersThanBlocks ==
  (lb.op = "LoadBalancing" /\ Len(lb.blocks) > 0 /\ lb.W > Len(lb.blocks)) =>
    LET n == Len(lb.blocks)
        Owned(w) == {i \in 1..n : lb.owner[i] = w}
    IN /\ lb.outcome = "ok"
       /\ DOMAIN lb.owner = 1..n
       /\ \A i \in 1..n : lb.owner[i] \in 1..lb.W
       /\ \A w \in 1..lb.W : Cardinality(Owned(w)) <= 1
       /\ Cardinality({w \in 1..lb.W : Owned(w) = {}}) = lb.W - n

\* two blocks of different weight were balanced over three workers
C20_Witness ==
  /\ lb.op = "LoadBalancing" /\ lb.outcome = "ok"
  /\ Len(lb.blocks) = 2 /\ lb.W = 3
  /\ weight(lb.blocks[1]) < weight(lb.blocks[2])

\* ---------------------------------------------------------------- frame of a transfer
\* the cells of block b that share area with the box, as local coordinates
CellsOverlapping(b, box) ==
  {c \in (0..(b.Nx - 1)) \X (0..(b.Ny - 1)) :
     /\ b.min[1] + c[1] * b.h < box.max[1]
     /\ box.min[1] < b.min[1] + (c[1] + 1) * b.h
     /\ b.min[2] + c[2] * b.h < box.max[2]
     /\ box.min[2] < b.min[2] + (c[2] + 1) * b.h}

\* the cells of block b that lie outside the box
CellsOutside(b, box) == ((0..(b.Nx - 1)) \X (0..(b.Ny - 1))) \ CellsOverlapping(b, box)

\* the block whose field a transfer writes, and the one it reads
DstOf(op) == IF op = "average" THEN "A" ELSE "B"
SrcOf(op) == IF op = "average" THEN "B" ELSE "A"

FineRectangle ==
  LET CNx == ToInt(getExtension(Intsec)[1], blk.A.h)
      CNy == ToInt(getExtension(Intsec)[2], blk.A.h)
      startFx == ToInt(Intsec.min[1] - blk.B.min[1], blk.B.h)
      startFy == ToInt(Intsec.min[2] - blk.B.min[2], blk.B.h)
  IN (startFx..(startFx + 2 * CNx - 1)) \X (startFy..(startFy + 2 * CNy - 1))

\* the steps of the interpolation that store into fine cell f
StepsInto(f) ==
  {k \in DOMAIN PlanOfInterpolation :
     PlanOfInterpolation[k].dst.id = ToSize(f[2] * blk.B.Nx + f[1])}

\* C24: the four passes of FieldInterpolation2D together write every fine
\* cell of the 2*CNx by 2*CNy rectangle starting at (startFx, startFy)
\* exactly once per field component, and write no other fine cell.
C24_EachFineCellOnce ==
  comm.op = "interpolate" =>
    /\ \A f \in FineRectangle : Cardinality(StepsInto(f)) = 1
    /\ \A k \in DOMAIN PlanOfInterpolation : \E f \in FineRectangle : k \in StepsInto(f)
    /\ {<<a.x, a.y>> : a \in {b \in acc : b.store}} = FineRectangle

\* an interpolation over at least two coarse cells took place, so that each
\* pass stored into more than one fine cell
C24_Witness ==
  /\ comm.op = "interpolate"
  /\ Cardinality(FineRectangle) >= 8
  /\ Cardinality({a \in acc : a.store}) = Cardinality(FineRectangle)

\* ---------------------------------------------------------------- Resize and copies
\* C27: Resize(s) with s equal to the current count changes nothing;
\* Resize(s) with another s sets count = s, shift = 0, lastOffset = 0,
\* remainder = s - 1, and every element reads as T{}.
C27_ResizeSemantics ==
  [][last'.op = "Resize" =>
       IF last'.a = arr.count
         THEN arr' = arr
         ELSE /\ arr'.count = last'.a
              /\ arr'.shift = 0
              /\ arr'.lastOffset = 0
              /\ arr'.remainder = last'.a - 1
              /\ \A i \in Idx(arr') : get(arr', i) = {DefaultValue}]_vars

\* a Resize to a larger count took place
C27_Witness ==
  /\ last.op = "Resize"
  /\ last.b < last.a
  /\ arr.count = last.a

\* C25: in every reachable shift state the logical indices of [0,N) resolve
\* to pairwise distinct elements of the buffer, so set(i, v) leaves get(j)
\* unchanged for every j # i and leaves shift, remainder and lastOffset
\* unchanged.
C25_Injective ==
  \A i, j \in Idx(arr') :
    /\ InBuf(arr', getdataPtr(arr', i))
    /\ i # j => getdataPtr(arr', i) # getdataPtr(arr', j)

C25_SetFrame ==
  last'.op = "set" =>
    /\ \A j \in Idx(arr) \ {last'.a} : SameValue(get(arr', j), get(arr, j))
    /\ arr'.shift = arr.shift
    /\ arr'.remainder = arr.remainder
    /\ arr'.lastOffset = arr.lastOffset

C25_MappingIsBijection == [][C25_Injective /\ C25_SetFrame]_vars

\* C26: after rotate(a) then rotate(b), getPrevious(i) refers to the element
\* get(i) referred to after rotate(a), not before it: getPrevious undoes only
\* the most recent rotation.
C26_PreviousOfLastRotation ==
  [][(last.op = "rotate" /\ last'.op = "rotate") =>
       \A i \in Idx(arr) :
         /\ InBuf(arr, getdataPtr(arr, i))
         /\ getPreviousPtr(arr', i) = getdataPtr(arr, i)
         /\ SameValue(getPrevious(arr', i), get(arr, i))]_vars

\* C28: after copy construction or copy assignment from a source in any
\* shift state the copy has the count, every get(i) and every getPrevious(i)
\* of the source; afterwards set or rotate on one of the two changes no
\* get(i) of the other; self-assignment changes nothing.
C28_Equal ==
  last'.op \in {"copy", "assign"} =>
    /\ other'.count = arr'.count
    /\ \A i \in Idx(arr') :
         /\ SameValue(get(other', i), get(arr', i))
         /\ SameValue(getPrevious(other', i), getPrevious(arr', i))

C28_Independent ==
  (last'.op \in {"set", "rotate"} /\ last'.n = last.n + 1 /\ other # << >>) =>
    IF last'.on = "arr"
      THEN \A i \in Idx(other) : SameValue(get(other', i), get(other, i))
      ELSE \A i \in Idx(arr) : SameValue(get(arr', i), get(arr, i))

C28_SelfAssign ==
  last'.op = "selfassign" => arr' = arr /\ other' = other

C28_CopiesEqualAndIndependent ==
  [][C28_Equal /\ C28_Independent /\ C28_SelfAssign]_vars

\* ---------------------------------------------------------------- moving boundary claims
\* the ids of the cells whose flag matches BdCellFlag
MatchingIds(b) == {id \in DOMAIN b.Field : isFlag(b.Field[id], b.BdCellFlag)}

\* C30: after UpdateBdCells, Ids contains every cell id whose flag matches
\* BdCellFlag and no other id, each once and in ascending order, whatever
\* Ids held before; a second call on an unchanged flag field leaves Ids
\* unchanged; the flag field is never modified by the call.
C30_UpdateBdCellsExact ==
  [][(bd'.op = "UpdateBdCells" /\ bd'.n = bd.n + 1) =>
       /\ {bd'.Ids[k] : k \in 1..Len(bd'.Ids)} = MatchingIds(bd)
       /\ \A k \in 1..(Len(bd'.Ids) - 1) : bd'.Ids[k] < bd'.Ids[k + 1]
       /\ bd'.Field = bd.Field
       /\ bd'.BdCellFlag = bd.BdCellFlag
       /\ bd.op = "UpdateBdCells" => bd'.Ids = bd.Ids]_vars

\* UpdateBdCells was called on a list that held an id twice or out of order,
\* with at least two cells matching and one cell not
C30_Witness ==
  /\ bd.op = "UpdateBdCells"
  /\ \E k \in 1..(Len(bd.before) - 1) : bd.before[k] >= bd.before[k + 1]
  /\ Len(bd.Ids) >= 2
  /\ Len(bd.Ids) < Cardinality(DOMAIN bd.Field)

\* ---------------------------------------------------------------- vtmWriter claims
\* the lines of the file after the header
ManifestBody(file) == SubSeq(file, Len(HeaderLines) + 1, Len(file))

\* the block ids of a sequence of complete block entries, in file order;
\* << -1 >> when the lines are not a sequence of complete entries
RECURSIVE EntryIds(_)
EntryIds(lines) ==
  IF lines = << >> THEN << >>
  ELSE IF /\ Len(lines) >= 4
          /\ lines[1].t = "Block"
          /\ SubSeq(lines, 1, 4) = BlockLines(lines[1].index)
          /\ EntryIds(SubSeq(lines, 5, Len(lines))) # << -1 >>
         THEN << lines[1].index >> \o EntryIds(SubSeq(lines, 5, Len(lines)))
         ELSE << -1 >>

\* the lines are complete block entries, one for each id of the set ids
OneEntryEach(lines, ids) ==
  /\ EntryIds(lines) # << -1 >>
  /\ Len(EntryIds(lines)) = Cardinality(ids)
  /\ {EntryIds(lines)[k] : k \in 1..Len(EntryIds(lines))} = ids

Lattices(prog) == {Body(prog)[k].obj : k \in {j \in 1..Len(Body(prog)) :
                                                 Body(prog)[j].kind = "stream"}}

\* C22: in each time step and for each lattice, Communicate or
\* NormalAllCommunicate runs only after the cell update, the Stream and the
\* boundary Apply calls of that lattice in the same step and before its cell
\* update of the next step, and no cell update of the lattice runs between
\* its Stream and its Communicate.
C22_CommunicateStep ==
  (loop'.call.kind = "communicate" /\ loop'.call.obj \in Lattices(loop.prog)) =>
    /\ loop.at[loop'.call.obj]["cell"] = loop.it
    /\ loop.at[loop'.call.obj]["stream"] = loop.it
    /\ loop.at[loop'.call.obj]["apply"] = loop.it
    /\ ~loop.dirty[loop'.call.obj]

C22_UpdateStep ==
  (loop'.call.kind \in {"cell", "stream", "apply"} /\ loop'.call.obj \in Lattices(loop.prog)) =>
    /\ loop.at[loop'.call.obj]["communicate"] = loop.it - 1
    /\ loop'.call.kind = "cell" =>
         loop.at[loop'.call.obj]["stream"] = loop.it - 1

AllAtBarrier == sync.run = "running" /\ \A w \in SyncWorkers : sync.phase[w] = "barrier"

\* a transfer some worker expects for its step is not there in the right size
SomeMissing ==
  \E w \in SyncWorkers : \E v \in Expected(sync.nbr, w) :
    Transfer(v, w, sync.step[w], TRUE) \notin sync.inbox

\* C21: in every time step no worker proceeds past the barrier until all
\* neighbour data expected for that step has arrived; an expected transfer
\* that is missing at the barrier puts the run in the ProtocolError state,
\* which is fatal and never retried.
C21_NoPassWithoutData ==
  (\E w \in SyncWorkers : sync.phase[w] = "barrier" /\ sync'.phase[w] # "barrier") =>
    ~SomeMissing

C21_MissingIsFatal ==
  (AllAtBarrier /\ SomeMissing) => sync'.run = "ProtocolError"

C21_NeverRetried ==
  sync.run = "ProtocolError" => sync' = sync

C21_SynchronousStep ==
  /\ [][C21_NoPassWithoutData /\ C21_MissingIsFatal /\ C21_NeverRetried]_vars
  /\ (AllAtBarrier /\ SomeMissing) ~> (sync.run = "ProtocolError")

\* the first step passed the barrier and the second ended in ProtocolError,
\* with a mis-sized transfer in it
C21_Witness ==
  /\ sync.run = "ProtocolError"
  /\ \A w \in SyncWorkers : sync.step[w] = 2
  /\ \E m \in sync.inbox : m.step = 2 /\ ~m.sized

====
